---- MODULE Spec2Model ----
(***************************************************************************)
(* docker-cr: checkpoint / restore orchestration around the CRIU engine.   *)
(*                                                                         *)
(* Strings are modelled as sequences of tokens whose concatenation is the  *)
(* Go string ("/proc/sys" is <<"/proc", "/sys">>, "/process" is            *)
(* <<"/proc", "ess">>), so that strings.HasPrefix and fmt.Sprintf are      *)
(* computed on the text and not looked up.                                 *)
(***************************************************************************)
EXTENDS Integers, Sequences, FiniteSets, TLC

VARIABLES
    fnOp,        \* the mount-reconciler function applied
    fnMappings,  \* its []docker.MountMapping argument
    fnSkip,      \* its skipMounts argument
    fnDone,      \* TRUE once the function has been applied
    fnOut,       \* the []string it returned
    fnHost,      \* the host filesystem ValidateMountSources runs on
    fnFailing,   \* the host paths at which os.MkdirAll fails
    fnReturned,  \* what ValidateMountSources or the load returned, in order
    fnState,     \* the *docker.ContainerState argument
    fnFile,      \* the file SaveMountMappings / SaveContainerMetadata writes
    disk,        \* the checkpoint directory <output>/<name>/<checkpoint>
    hostDirs,    \* the host filesystem at the mount-source paths
    runs,        \* Checkpoint invocations started so far
    ck,          \* the Checkpoint invocation: position, inputs, locals, error
    rs,          \* the Restore invocation: position, inputs, locals, error
    eng,         \* the engine calls of the current invocation
    query,       \* the read-only operation on the directory, and its result
    pair         \* two invocations side by side and the paths they share

fnVars == <<fnOp, fnMappings, fnSkip, fnDone, fnOut, fnHost, fnFailing,
            fnReturned, fnState, fnFile>>

wfVars == <<disk, hostDirs, runs, ck, rs, eng, query>>

vars == <<fnOp, fnMappings, fnSkip, fnDone, fnOut, fnHost, fnFailing,
          fnReturned, fnState, fnFile,
          disk, hostDirs, runs, ck, rs, eng, query, pair>>

----------------------------------------------------------------------------
(* Bounds                                                                  *)

MaxMounts == 2      \* longest MountMapping list given to the pure functions
MaxRuns == 2        \* Checkpoint invocations on the checkpoint path

----------------------------------------------------------------------------
(* Strings                                                                 *)

Range(s) == {s[i] : i \in 1..Len(s)}

SeqsUpTo(S, n) == UNION {[1..k -> S] : k \in 0..n}

\* strings.HasPrefix
HasPrefix(s, prefix) ==
    /\ Len(prefix) <= Len(s)
    /\ SubSeq(s, 1, Len(prefix)) = prefix

EmptyString == <<>>

\* index of the first occurrence of token t in s, Len(s)+1 when there is none
IndexOf(s, t) ==
    IF \E i \in 1..Len(s) : s[i] = t
    THEN CHOOSE i \in 1..Len(s) : s[i] = t /\ \A j \in 1..(i-1) : s[j] # t
    ELSE Len(s) + 1

\* container and host paths of the model
PathData     == <<"/data">>
PathEtcHosts == <<"/etc", "/hosts">>
PathProc     == <<"/proc">>
PathProcess  == <<"/proc", "ess">>
PathSys      == <<"/sys">>
PathDev      == <<"/dev">>
PathDevShm   == <<"/dev", "/shm">>
PathDevPts   == <<"/dev", "/pts">>
PathDevMqueue == <<"/dev", "/mqueue">>
PathSysFsCgroup == <<"/sys", "/fs", "/cgroup">>
HostTmpD1    == <<"/tmp", "/d1">>
HostTmpD2    == <<"/tmp", "/d2">>

----------------------------------------------------------------------------
(* docker.MountMapping                                                     *)

MountMapping(cp, hp, ty, ext) ==
    [ContainerPath |-> cp, HostPath |-> hp, Type |-> ty, Options |-> "",
     IsExternal |-> ext, ReadOnly |-> FALSE]

\* the mappings the pure functions are exercised on
MappingUniverse ==
    {MountMapping(cp, hp, "bind", ext) :
        cp \in {PathData, PathEtcHosts, PathProc, PathProcess, PathDevShm},
        hp \in {EmptyString, HostTmpD1},
        ext \in BOOLEAN}

MappingLists == SeqsUpTo(MappingUniverse, MaxMounts)

SkipLists ==
    {<<>>, <<PathData>>, <<PathProc>>, <<PathDev>>, <<PathSys>>,
     <<PathData, PathProc>>, <<PathEtcHosts, PathData>>}

----------------------------------------------------------------------------
(* External-mount descriptors                                              *)

\* fmt.Sprintf("mnt[%s]", containerPath)
SprintfMnt(cp) == <<"mnt[">> \o cp \o <<"]">>

\* fmt.Sprintf("mnt[%s]:%s", containerPath, hostPath)
SprintfMntHost(cp, hp) == <<"mnt[">> \o cp \o <<"]", ":">> \o hp

\* fmt.Sprintf("mnt:%s", containerPath)
SprintfMntPlain(cp) == <<"mnt:">> \o cp

\* fmt.Sprintf("auto:%s:%s", containerPath, hostPath)
SprintfAuto(cp, hp) == <<"auto:">> \o cp \o <<":">> \o hp

\* the container path a descriptor names, read back from its text
DescriptorPath(d) ==
    IF d = <<>> THEN <<>>
    ELSE IF d[1] = "mnt[" THEN SubSeq(d, 2, IndexOf(d, "]") - 1)
    ELSE IF d[1] = "mnt:" THEN Tail(d)
    ELSE IF d[1] = "auto:" THEN SubSeq(d, 2, IndexOf(d, ":") - 1)
    ELSE d

standardMounts ==
    << <<"mnt[", "/proc", "/sys", "]">>,
       <<"mnt[", "/proc", "/sysrq-trigger", "]">>,
       <<"mnt[", "/proc", "/irq", "]">>,
       <<"mnt[", "/proc", "/bus", "]">>,
       <<"mnt[", "/sys", "/fs", "/cgroup", "]">>,
       <<"mnt[", "/sys", "]">>,
       <<"mnt[", "/dev", "]">>,
       <<"mnt[", ".dockerenv", "]">>,
       <<"mnt[", "/etc", "/hosts", "]">>,
       <<"mnt[", "/etc", "/hostname", "]">>,
       <<"mnt[", "/etc", "/resolv.conf", "]">> >>

\* the loop of BuildExternalMountMappings over mappings[i..]
RECURSIVE UserExternalMounts(_)
UserExternalMounts(mappings) ==
    IF mappings = <<>> THEN <<>>
    ELSE LET mapping == Head(mappings)
             rest == UserExternalMounts(Tail(mappings))
         IN IF /\ mapping.IsExternal
               /\ mapping.HostPath # EmptyString
               /\ ~HasPrefix(mapping.ContainerPath, PathProc)
               /\ ~HasPrefix(mapping.ContainerPath, PathSys)
               /\ ~HasPrefix(mapping.ContainerPath, PathDev)
            THEN <<SprintfMnt(mapping.ContainerPath)>> \o rest
            ELSE rest

\* mutant: IsExternal is not looked at
BuildExternalMountMappings_AnyMapping(mappings) ==
    standardMounts
        \o UserExternalMounts([i \in 1..Len(mappings) |->
                                 [mappings[i] EXCEPT !.IsExternal = TRUE]])

BuildExternalMountMappings(mappings) ==
    standardMounts \o UserExternalMounts(mappings)

RECURSIVE BuildExtMountMapArgs(_)
BuildExtMountMapArgs(mappings) ==
    IF mappings = <<>> THEN <<>>
    ELSE LET mapping == Head(mappings)
             rest == BuildExtMountMapArgs(Tail(mappings))
         IN IF mapping.IsExternal /\ mapping.HostPath # EmptyString
            THEN <<SprintfAuto(mapping.ContainerPath, mapping.HostPath)>> \o rest
            ELSE rest

essentialMounts ==
    << SprintfMntPlain(PathProc), SprintfMntPlain(PathDev), SprintfMntPlain(PathSys) >>

\* skipMap[path] of buildExternalMountArgs
SkipMap(skipMounts, path) == path \in Range(skipMounts)

\* the first loop of buildExternalMountArgs
RECURSIVE MappingMountArgs(_, _)
MappingMountArgs(mappings, skipMounts) ==
    IF mappings = <<>> THEN <<>>
    ELSE LET mapping == Head(mappings)
             rest == MappingMountArgs(Tail(mappings), skipMounts)
         IN IF mapping.IsExternal /\ ~SkipMap(skipMounts, mapping.ContainerPath)
            THEN IF mapping.HostPath # EmptyString
                 THEN <<SprintfMntHost(mapping.ContainerPath, mapping.HostPath)>> \o rest
                 ELSE <<SprintfMntPlain(mapping.ContainerPath)>> \o rest
            ELSE rest

\* mutant: the fixed entries honour the skip list too
buildExternalMountArgs_SkipEssential(mappings, skipMounts) ==
    MappingMountArgs(mappings, skipMounts)
        \o SelectSeq(essentialMounts,
                     LAMBDA d : ~SkipMap(skipMounts, Tail(d)))

buildExternalMountArgs(mappings, skipMounts) ==
    MappingMountArgs(mappings, skipMounts) \o essentialMounts

\* criuOpts.External as RestoreProcess hands it to the engine: opts.External
\* followed by opts.ExtMountMap when that is not empty
RestoreProcessExternal(external, extMountMap) ==
    IF Len(extMountMap) > 0 THEN external \o extMountMap ELSE external

----------------------------------------------------------------------------
(* Files, errors, runtime                                                  *)

\* error values: nil is the empty message, fmt.Errorf with %w / %v wraps by
\* putting its own text in front of the wrapped message
nil == <<>>

Errorf(text, err) == <<text>> \o err

\* a file of the checkpoint directory: by is the Checkpoint invocation that
\* wrote it
NoFile == [exists |-> FALSE, by |-> 0, data |-> <<>>]

File(run, data) == [exists |-> TRUE, by |-> run, data |-> data]

\* the images directory: by is the invocation whose engine call wrote the
\* image files it holds, 0 when it holds none
NoImages == [exists |-> FALSE, by |-> 0]

EmptyDisk ==
    [dir |-> FALSE, images |-> NoImages,
     mm |-> NoFile, cm |-> NoFile, meta |-> NoFile, extmap |-> NoFile]

\* utils.FileExists / utils.DirExists on the checkpoint directory
FileExists(d, name) == d[name].exists

DirExists(d, name) ==
    IF name = "images" THEN d.images.exists ELSE d.dir

\* utils.ListFiles(imagesDir): the number of entries
ListFiles(d) == IF d.images.exists /\ d.images.by # 0 THEN 1 ELSE 0

\* utils.EnsureDir(imagesDir) of Checkpoint and CheckpointProcess: MkdirAll
\* creates the checkpoint directory and images/ when they are missing
EnsureImagesDir(d) ==
    IF d.images.exists /\ d.dir THEN d
    ELSE [d EXCEPT !.dir = TRUE,
                   !.images = [exists |-> TRUE, by |-> d.images.by]]

\* utils.WriteFile(filePath, data): MkdirAll of the directory, then the file;
\* a write that returns an error is modelled by the caller as leaving the
\* file as it was
WriteFile(d, name, run, data) ==
    [d EXCEPT !.dir = TRUE, ![name] = File(run, data)]

\* host paths that are always there
SystemHostPaths ==
    {PathProc, PathSys, PathDev, PathDevShm, PathDevPts, PathDevMqueue,
     PathSysFsCgroup}

UserHostPaths == {HostTmpD1}

\* the host filesystem as os.Stat sees it: the paths that are there, and the
\* paths at which os.Stat fails with an error other than ENOENT (a parent
\* component that is a regular file, a parent that may not be searched)
HostFs(present, statErr) == [present |-> present, statErr |-> statErr]

HostFsStates(paths) ==
    {h \in [present : SUBSET paths, statErr : SUBSET paths] :
        h.present \cap h.statErr = {}}

\* os.Stat(p): "ok", "ENOENT" or another error
Stat(host, p) ==
    IF p \in host.statErr THEN "error"
    ELSE IF p \in host.present \cup SystemHostPaths THEN "ok"
    ELSE "ENOENT"

\* utils.FileExists(p): !os.IsNotExist(err)
HostFileExists(host, p) == Stat(host, p) # "ENOENT"

\* utils.DirExists(p): !os.IsNotExist(err) && info.IsDir(); its callers here
\* reach it only after os.Stat(p) answered ENOENT, or on a path that is a
\* directory when it is there
HostDirExists(host, p) == Stat(host, p) = "ok"

\* !utils.FileExists(p) && !utils.DirExists(p) is the negation of this
HostPathExists(host, p) == HostFileExists(host, p) \/ HostDirExists(host, p)

\* an EnsureDir whose directory is not there afterwards
EnsureHostDir_NoEffect(host, p, failing) ==
    [err |-> nil, host |-> host, created |-> <<p>>]

\* utils.EnsureDir(p): [err, host, created]; os.MkdirAll fails at the paths in
\* failing
EnsureHostDir(host, p, failing) ==
    IF HostDirExists(host, p)
    THEN [err |-> nil, host |-> host, created |-> <<>>]
    ELSE IF p \in failing
         THEN [err |-> Errorf("failed to create directory: ", <<"mkdir-error">>),
               host |-> host, created |-> <<>>]
         ELSE [err |-> nil,
               host |-> [host EXCEPT !.present = @ \cup {p}],
               created |-> <<p>>]

\* types.MountPoint lists the runtime reports
MountPoint(dst, src, rw) ==
    [Destination |-> dst, Source |-> src, Type |-> "bind", Mode |-> "", RW |-> rw]

RuntimeMountLists ==
    { <<>>, <<MountPoint(PathData, HostTmpD1, TRUE)>>,
      <<MountPoint(PathEtcHosts, HostTmpD1, FALSE),
        MountPoint(PathData, HostTmpD1, TRUE)>> }

\* docker.ContainerState of a running container (the fields the
\* orchestrators read)
ContainerState(mounts) ==
    [ID |-> "0123456789abcdef", Name |-> "c1", Image |-> "img",
     Mounts |-> mounts, ProcessPID |-> 100]

\* what ContainerInspect answers: an error, a stopped container, or a
\* running one
InspectAnswers ==
    {[err |-> TRUE, Running |-> FALSE, Mounts |-> <<>>],
     [err |-> FALSE, Running |-> FALSE, Mounts |-> <<>>]}
    \cup {[err |-> FALSE, Running |-> TRUE, Mounts |-> m] : m \in RuntimeMountLists}

\* mutant: State.Running is not looked at
GetContainerState_AnyState(answer) ==
    IF answer.err
    THEN [err |-> Errorf("failed to inspect container: ", <<"inspect-error">>),
          state |-> <<>>]
    ELSE [err |-> nil, state |-> ContainerState(answer.Mounts)]

\* GetContainerState: [err, state]
GetContainerState(answer) ==
    IF answer.err
    THEN [err |-> Errorf("failed to inspect container: ", <<"inspect-error">>),
          state |-> <<>>]
    ELSE IF ~answer.Running
    THEN [err |-> <<"container is not running">>, state |-> <<>>]
    ELSE [err |-> nil, state |-> ContainerState(answer.Mounts)]

RECURSIVE RuntimeMappings(_)
RuntimeMappings(mounts) ==
    IF mounts = <<>> THEN <<>>
    ELSE LET mount == Head(mounts)
         IN << [ContainerPath |-> mount.Destination, HostPath |-> mount.Source,
                Type |-> mount.Type, Options |-> mount.Mode,
                IsExternal |-> TRUE, ReadOnly |-> ~mount.RW] >>
            \o RuntimeMappings(Tail(mounts))

systemMounts ==
    << MountMapping(PathProc, PathProc, "proc", TRUE),
       MountMapping(PathSys, PathSys, "sysfs", TRUE),
       MountMapping(PathDev, PathDev, "devtmpfs", TRUE),
       MountMapping(PathDevShm, PathDevShm, "tmpfs", TRUE),
       MountMapping(PathDevPts, PathDevPts, "devpts", TRUE),
       MountMapping(PathDevMqueue, PathDevMqueue, "mqueue", TRUE),
       MountMapping(PathSysFsCgroup, PathSysFsCgroup, "cgroup", TRUE) >>

\* mutant: the well-known mounts come first
GetMountMappings_SystemFirst(state) ==
    systemMounts \o RuntimeMappings(state.Mounts)

GetMountMappings(state) == RuntimeMappings(state.Mounts) \o systemMounts

\* ValidateMountSources: [err, host, created]; created lists the placeholders
\* made, failing are the paths at which os.MkdirAll fails
RECURSIVE ValidateMountSources(_, _, _)
ValidateMountSources(mappings, host, failing) ==
    IF mappings = <<>> THEN [err |-> nil, host |-> host, created |-> <<>>]
    ELSE LET mapping == Head(mappings)
         IN IF /\ mapping.IsExternal
               /\ mapping.HostPath # EmptyString
               /\ ~HostPathExists(host, mapping.HostPath)
            THEN LET e == EnsureHostDir(host, mapping.HostPath, failing)
                 IN IF e.err # nil
                    THEN [err |-> Errorf("failed to create mount source placeholder: ",
                                         e.err),
                          host |-> e.host, created |-> e.created]
                    ELSE LET v == ValidateMountSources(Tail(mappings), e.host,
                                                       failing)
                         IN [v EXCEPT !.created = e.created \o @]
            ELSE ValidateMountSources(Tail(mappings), host, failing)

----------------------------------------------------------------------------
(* encoding/json on the persisted structures                               *)

\* a string is a sequence of tokens; the tokens ", \, <, > and & are the
\* characters json.Marshal escapes, every other token is text it copies
JsonEscapeToken(t) ==
    CASE t = "\"" -> "\\\""
      [] t = "\\" -> "\\\\"
      [] t = "<"  -> "\\u003c"
      [] t = ">"  -> "\\u003e"
      [] t = "&"  -> "\\u0026"
      [] OTHER    -> t

JsonUnescapeToken(t) ==
    CASE t = "\\\""   -> "\""
      [] t = "\\\\"   -> "\\"
      [] t = "\\u003c" -> "<"
      [] t = "\\u003e" -> ">"
      [] t = "\\u0026" -> "&"
      [] OTHER        -> t

\* the token of a string literal at which json.Unmarshal reports a syntax
\* error: a bare quote ends the literal early, a bare backslash starts no
\* escape
JsonBadToken(t) == t \in {"\"", "\\"}

\* a Go string as a JSON string literal, and back
JsonString(str) == [i \in 1..Len(str) |-> JsonEscapeToken(str[i])]

JsonStringValue(lit) == [i \in 1..Len(lit) |-> JsonUnescapeToken(lit[i])]

JsonStringOk(lit) == \A i \in 1..Len(lit) : ~JsonBadToken(lit[i])

\* a Go bool as a JSON literal, and back
JsonBool(b) == IF b THEN "true" ELSE "false"

JsonBoolValue(lit) == lit = "true"

\* the member of a JSON object a struct field is read from; a missing member
\* leaves the field at its zero value
JsonMember(obj, key, zero) == IF key \in DOMAIN obj THEN obj[key] ELSE zero

\* json.MarshalIndent of one docker.MountMapping, by its field tags
MarshalMountMapping(m) ==
    [container_path |-> JsonString(m.ContainerPath),
     host_path |-> JsonString(m.HostPath),
     type |-> JsonString(<<m.Type>>),
     options |-> JsonString(<<m.Options>>),
     is_external |-> JsonBool(m.IsExternal),
     read_only |-> JsonBool(m.ReadOnly)]

\* mutant: the host path is written under a key the reader does not know
MarshalMountMappings_OtherKey(mappings) ==
    [i \in 1..Len(mappings) |->
        [container_path |-> JsonString(mappings[i].ContainerPath),
         hostPath |-> JsonString(mappings[i].HostPath),
         type |-> JsonString(<<mappings[i].Type>>),
         options |-> JsonString(<<mappings[i].Options>>),
         is_external |-> JsonBool(mappings[i].IsExternal),
         read_only |-> JsonBool(mappings[i].ReadOnly)]]

\* json.MarshalIndent(mappings, "", "  ") of SaveMountMappings
MarshalMountMappings(mappings) ==
    [i \in 1..Len(mappings) |-> MarshalMountMapping(mappings[i])]

\* the string literals of one mapping object
MountMappingLiterals(obj) ==
    {JsonMember(obj, key, <<>>) :
        key \in {"container_path", "host_path", "type", "options"}}

UnmarshalMountMapping(obj) ==
    [ContainerPath |-> JsonStringValue(JsonMember(obj, "container_path", <<>>)),
     HostPath |-> JsonStringValue(JsonMember(obj, "host_path", <<>>)),
     Type |-> LET v == JsonStringValue(JsonMember(obj, "type", <<"">>))
              IN IF v = <<>> THEN "" ELSE v[1],
     Options |-> LET v == JsonStringValue(JsonMember(obj, "options", <<"">>))
                 IN IF v = <<>> THEN "" ELSE v[1],
     IsExternal |-> JsonBoolValue(JsonMember(obj, "is_external", "false")),
     ReadOnly |-> JsonBoolValue(JsonMember(obj, "read_only", "false"))]

\* json.Unmarshal(data, &mappings) of LoadMountMappings: [err, mappings]
UnmarshalMountMappings(doc) ==
    IF \E i \in 1..Len(doc) : \E lit \in MountMappingLiterals(doc[i]) :
           ~JsonStringOk(lit)
    THEN [err |-> <<"invalid character">>, mappings |-> <<>>]
    ELSE [err |-> nil,
          mappings |-> [i \in 1..Len(doc) |-> UnmarshalMountMapping(doc[i])]]

\* one types.MountPoint of ContainerState.Mounts: the field names are the
\* keys, an empty Type is omitted
MarshalMountPoint(mount) ==
    IF mount.Type = ""
    THEN [Source |-> JsonString(mount.Source),
          Destination |-> JsonString(mount.Destination),
          Mode |-> JsonString(<<mount.Mode>>), RW |-> JsonBool(mount.RW)]
    ELSE [Type |-> JsonString(<<mount.Type>>),
          Source |-> JsonString(mount.Source),
          Destination |-> JsonString(mount.Destination),
          Mode |-> JsonString(<<mount.Mode>>), RW |-> JsonBool(mount.RW)]

UnmarshalMountPoint(obj) ==
    [Destination |-> JsonStringValue(JsonMember(obj, "Destination", <<>>)),
     Source |-> JsonStringValue(JsonMember(obj, "Source", <<>>)),
     Type |-> LET v == JsonStringValue(JsonMember(obj, "Type", <<"">>))
              IN IF v = <<>> THEN "" ELSE v[1],
     Mode |-> LET v == JsonStringValue(JsonMember(obj, "Mode", <<"">>))
              IN IF v = <<>> THEN "" ELSE v[1],
     RW |-> JsonBoolValue(JsonMember(obj, "RW", "false"))]

\* json.MarshalIndent(state, "", "  ") of SaveContainerMetadata
MarshalContainerState(state) ==
    [id |-> JsonString(<<state.ID>>), name |-> JsonString(<<state.Name>>),
     image |-> JsonString(<<state.Image>>),
     mounts |-> [i \in 1..Len(state.Mounts) |-> MarshalMountPoint(state.Mounts[i])],
     process_pid |-> state.ProcessPID]

\* json.Unmarshal(data, &state) of LoadContainerMetadata
UnmarshalContainerState(obj) ==
    [ID |-> JsonStringValue(JsonMember(obj, "id", <<"">>))[1],
     Name |-> JsonStringValue(JsonMember(obj, "name", <<"">>))[1],
     Image |-> JsonStringValue(JsonMember(obj, "image", <<"">>))[1],
     Mounts |-> LET mounts == JsonMember(obj, "mounts", <<>>)
                IN [i \in 1..Len(mounts) |-> UnmarshalMountPoint(mounts[i])],
     ProcessPID |-> JsonMember(obj, "process_pid", 0)]

----------------------------------------------------------------------------
(* Engine options                                                          *)

\* checkpoint.CheckpointConfig values given to Checkpoint
CheckpointConfig(preDump, flags) ==
    [LeaveRunning |-> flags, TcpEstablished |-> flags, FileLocks |-> flags,
     PreDump |-> preDump, LogLevel |-> IF flags THEN 4 ELSE 2,
     ManageCgroups |-> flags, Shell |-> flags]

CheckpointConfigs == {CheckpointConfig(p, f) : p \in BOOLEAN, f \in BOOLEAN}

\* the CheckpointOptions Checkpoint builds (step 7)
CheckpointOptions(config, externalMounts) ==
    [WorkDir |-> "checkpointDir", ImagesDir |-> "checkpointDir/images",
     LogFile |-> "checkpointDir/dump.log",
     LogLevel |-> config.LogLevel,
     External |-> externalMounts,
     ManageCgroups |-> config.ManageCgroups,
     TcpEstablished |-> config.TcpEstablished,
     FileLocks |-> config.FileLocks,
     LeaveRunning |-> config.LeaveRunning,
     Shell |-> config.Shell,
     PreDump |-> config.PreDump,
     TrackMem |-> config.PreDump]

\* the rpc.CriuOpts CheckpointProcess builds for Dump
DumpCriuOpts(pid, opts) ==
    [Pid |-> pid, LogLevel |-> opts.LogLevel, LogFile |-> opts.LogFile,
     ManageCgroups |-> opts.ManageCgroups,
     TcpEstablished |-> opts.TcpEstablished,
     FileLocks |-> opts.FileLocks,
     LeaveRunning |-> opts.LeaveRunning,
     ShellJob |-> opts.Shell,
     External |-> opts.External,
     ExtUnixSk |-> TRUE, GhostLimit |-> 0, ManageCgroupsMode |-> "SOFT",
     WorkDirFd |-> opts.WorkDir, ImagesDirFd |-> opts.ImagesDir,
     TrackMem |-> FALSE]

\* preDumpOpts := *criuOpts with the two overrides
PreDumpCriuOpts(pid, opts) ==
    [DumpCriuOpts(pid, opts) EXCEPT !.TrackMem = opts.TrackMem,
                                    !.TcpEstablished = FALSE]

\* mutant: preDumpOpts is criuOpts itself, not a copy
OptsAfterPreDump_Alias(criuOpts, preDumpOpts) == preDumpOpts

\* criuOpts after `preDumpOpts := *criuOpts` and the two assignments, which
\* give the copy new pointers and leave the original's fields alone
OptsAfterPreDump(criuOpts, preDumpOpts) == criuOpts

\* the rpc.CriuOpts handed to criuClient.Dump
CriuOptsAtDump(pid, opts) ==
    IF opts.PreDump
    THEN OptsAfterPreDump(DumpCriuOpts(pid, opts), PreDumpCriuOpts(pid, opts))
    ELSE DumpCriuOpts(pid, opts)

Arg(s) == <<s>>

RECURSIVE ExternalArgs(_)
ExternalArgs(external) ==
    IF external = <<>> THEN <<>>
    ELSE <<Arg("--external"), Head(external)>> \o ExternalArgs(Tail(external))

\* the argument vector of CheckpointProcessCmd
CheckpointProcessCmdArgs(pid, opts) ==
    << Arg("dump"),
       Arg("-t"), Arg(ToString(pid)),
       Arg("-D"), Arg(opts.ImagesDir),
       Arg("--log-file"), Arg(opts.LogFile),
       <<"-v", "4">>,
       Arg("--tcp-established"),
       Arg("--file-locks"),
       Arg("--link-remap"),
       Arg("--force-irmap"),
       Arg("--manage-cgroups"),
       Arg("--enable-external-sharing"),
       Arg("--enable-external-masters"),
       Arg("--enable-fs"), Arg("hugetlbfs"),
       Arg("--enable-fs"), Arg("tracefs"),
       Arg("--skip-mnt"), PathProc,
       Arg("--skip-mnt"), PathDev,
       Arg("--skip-mnt"), PathSys,
       Arg("--skip-mnt"), <<"/run">> >>
    \o (IF opts.LeaveRunning THEN <<Arg("--leave-running")>> ELSE <<>>)
    \o ExternalArgs(opts.External)

\* restore.RestoreConfig values given to Restore
RestoreConfig(validateEnv, autoFix, skipMounts) ==
    [CheckpointDir |-> "checkpointDir", NewContainerName |-> "c1-restored",
     LogLevel |-> 4, ManageCgroups |-> FALSE, TcpEstablished |-> FALSE,
     RestoreSibling |-> FALSE, Shell |-> TRUE,
     ValidateEnv |-> validateEnv, AutoFixMounts |-> autoFix,
     SkipMounts |-> skipMounts]

RestoreConfigs ==
    {RestoreConfig(v, a, s) : v \in BOOLEAN, a \in BOOLEAN,
                              s \in {<<>>, <<PathData>>}}

\* the RestoreOptions Restore builds (step 10)
RestoreOptions(config, mountMappings) ==
    [WorkDir |-> config.CheckpointDir,
     ImagesDir |-> "checkpointDir/images",
     LogFile |-> "checkpointDir/restore.log",
     LogLevel |-> config.LogLevel,
     External |-> buildExternalMountArgs(mountMappings, config.SkipMounts),
     ExtMountMap |-> BuildExtMountMapArgs(mountMappings),
     SkipMnt |-> config.SkipMounts,
     PidFile |-> "",
     ManageCgroups |-> config.ManageCgroups,
     TcpEstablished |-> config.TcpEstablished,
     RestoreSibling |-> config.RestoreSibling,
     Shell |-> config.Shell,
     EmptyNs |-> 64]

\* the rpc.CriuOpts RestoreProcess hands to the engine
RestoreCriuOpts(opts) ==
    [LogLevel |-> opts.LogLevel, LogFile |-> opts.LogFile,
     ManageCgroups |-> opts.ManageCgroups,
     TcpEstablished |-> opts.TcpEstablished,
     RstSibling |-> opts.RestoreSibling,
     ShellJob |-> opts.Shell,
     External |-> RestoreProcessExternal(opts.External, opts.ExtMountMap),
     EmptyNs |-> opts.EmptyNs,
     ImagesDirFd |-> opts.ImagesDir]

\* the External list Restore's options lead RestoreProcess to pass on
RestoreEngineExternal(mappings, skipMounts) ==
    RestoreCriuOpts(RestoreOptions(RestoreConfig(FALSE, FALSE, skipMounts),
                                   mappings)).External

----------------------------------------------------------------------------
(* Checkpoint                                                              *)

\* mutant: the engine runs before the two metadata files are saved
CheckpointSteps_EngineFirst ==
    << "GetContainerState", "EnsureDir", "MountMappings", "CheckpointProcess",
       "SaveMountMappings", "SaveContainerMetadata", "saveCheckpointMetadata" >>

CheckpointSteps ==
    << "GetContainerState", "EnsureDir", "MountMappings", "SaveMountMappings",
       "SaveContainerMetadata", "CheckpointProcess", "saveCheckpointMetadata" >>

\* the step that follows step in the sequence steps, "done" after the last
StepAfter(steps, step) ==
    LET i == IndexOf(steps, step)
    IN IF i < Len(steps) THEN steps[i + 1] ELSE "done"

CkIdle ==
    [pc |-> "idle", run |-> 0, config |-> CheckpointConfig(FALSE, FALSE),
     inspect |-> [err |-> FALSE, Running |-> FALSE, Mounts |-> <<>>],
     state |-> <<>>, mountMappings |-> <<>>, externalMounts |-> <<>>,
     libErr |-> nil, logFile |-> [exists |-> FALSE, data |-> <<>>],
     logged |-> <<>>, err |-> nil]

RsIdle ==
    [pc |-> "idle", config |-> RestoreConfig(FALSE, FALSE, <<>>),
     originalState |-> <<>>, metaMappings |-> <<>>, mountMappings |-> <<>>,
     container |-> "none", stopErr |-> nil,
     verify |-> [err |-> FALSE, Running |-> FALSE, Mounts |-> <<>>],
     tempIsCheckpointDir |-> FALSE, err |-> nil]

\* calls: the steps of the invocation in the order they ran; engine: the
\* engine calls made, each with how it returned; then the options each
\* engine call was handed
EngIdle ==
    [calls |-> <<>>, engine |-> <<>>, preDumpOpts |-> <<>>, dumpOpts |-> <<>>,
     cmdArgs |-> <<>>, restoreOpts |-> <<>>]

\* no invocation is running
Idle == ck.pc = "idle" /\ rs.pc = "idle" /\ query.op = "none"

Count(calls, name) == Cardinality({i \in 1..Len(calls) : calls[i] = name})

Called(name) == eng' = [eng EXCEPT !.calls = Append(@, name)]

\* an engine call: its name, the options field it fills, how it returned
EngineCalled(name, field, opts, result) ==
    eng' = [eng EXCEPT !.calls = Append(@, name),
                       !.engine = Append(@, <<name, result>>),
                       ![field] = opts]

CkFail(text, cause) ==
    ck' = [ck EXCEPT !.pc = "failed", !.err = Errorf(text, cause)]

CkAdvance == ck' = [ck EXCEPT !.pc = StepAfter(CheckpointSteps, ck.pc)]

\* step 1
CheckpointGetContainerState ==
    /\ Idle
    /\ runs < MaxRuns
    /\ \E config \in CheckpointConfigs, answer \in InspectAnswers :
          LET r == GetContainerState(answer)
              start == [CkIdle EXCEPT !.run = runs + 1, !.config = config,
                                      !.inspect = answer]
          IN ck' = IF r.err # nil
                   THEN [start EXCEPT !.pc = "failed",
                             !.err = Errorf("failed to get container state: ", r.err)]
                   ELSE [start EXCEPT !.state = r.state,
                             !.pc = StepAfter(CheckpointSteps, "GetContainerState")]
    /\ runs' = runs + 1
    /\ eng' = [EngIdle EXCEPT !.calls = <<"GetContainerState">>]
    /\ UNCHANGED <<disk, hostDirs, rs, fnVars, query, pair>>

\* step 2: utils.EnsureDir(imagesDir)
CheckpointEnsureDir ==
    /\ ck.pc = "EnsureDir"
    /\ Called("EnsureDir")
    /\ \/ /\ disk' = EnsureImagesDir(disk)
          /\ CkAdvance
       \/ /\ ~DirExists(disk, "images")
          /\ CkFail("failed to create checkpoint directory: ", <<"mkdir-error">>)
          /\ UNCHANGED disk
    /\ UNCHANGED <<hostDirs, runs, rs, fnVars, query, pair>>

\* steps 3 and 4: GetMountMappings, ValidateMountSources,
\* BuildExternalMountMappings
CheckpointMountMappings ==
    /\ ck.pc = "MountMappings"
    /\ Called("ValidateMountSources")
    /\ \E failing \in SUBSET UserHostPaths :
          LET mountMappings == GetMountMappings(ck.state)
              v == ValidateMountSources(mountMappings, hostDirs, failing)
          IN /\ hostDirs' = v.host
             /\ IF v.err # nil
                THEN CkFail("mount validation failed: ", v.err)
                ELSE ck' = [ck EXCEPT
                              !.mountMappings = mountMappings,
                              !.externalMounts = BuildExternalMountMappings(mountMappings),
                              !.pc = StepAfter(CheckpointSteps, "MountMappings")]
    /\ UNCHANGED <<disk, runs, rs, fnVars, query, pair>>

\* step 5: SaveMountMappings
CheckpointSaveMountMappings ==
    /\ ck.pc = "SaveMountMappings"
    /\ Called("SaveMountMappings")
    /\ \/ /\ disk' = WriteFile(disk, "mm", ck.run,
                               MarshalMountMappings(ck.mountMappings))
          /\ CkAdvance
       \/ /\ CkFail("failed to save mount mappings: ", <<"write-error">>)
          /\ UNCHANGED disk
    /\ UNCHANGED <<hostDirs, runs, rs, fnVars, query, pair>>

\* step 6: SaveContainerMetadata
CheckpointSaveContainerMetadata ==
    /\ ck.pc = "SaveContainerMetadata"
    /\ Called("SaveContainerMetadata")
    /\ \/ /\ disk' = WriteFile(disk, "cm", ck.run, MarshalContainerState(ck.state))
          /\ CkAdvance
       \/ /\ CkFail("failed to save container metadata: ", <<"write-error">>)
          /\ UNCHANGED disk
    /\ UNCHANGED <<hostDirs, runs, rs, fnVars, query, pair>>

\* the opts of step 7 for the running invocation
CkOpts == CheckpointOptions(ck.config, ck.externalMounts)

\* step 8, CheckpointProcess up to the engine: EnsureDir of both
\* directories and os.Open of both
CheckpointProcessOpen ==
    /\ ck.pc = "CheckpointProcess"
    /\ Called("CheckpointProcess")
    /\ \/ /\ disk' = EnsureImagesDir(disk)
          /\ ck' = [ck EXCEPT !.pc = IF CkOpts.PreDump THEN "PreDump" ELSE "Dump"]
       \/ /\ CkFail("CRIU checkpoint failed: ",
                    Errorf("failed to open work directory: ", <<"open-error">>))
          /\ UNCHANGED disk
    /\ UNCHANGED <<hostDirs, runs, rs, fnVars, query, pair>>

\* the engine wrote image files for invocation run
EngineWrote(d, run) == [d EXCEPT !.images = [exists |-> TRUE, by |-> run]]

\* mutant: a failed Dump is tried again
AfterDump_Retry(err) ==
    IF err # nil THEN "Dump"
    ELSE StepAfter(CheckpointSteps, "CheckpointProcess")

\* the position after criuClient.Dump returned err
AfterDump(err) ==
    IF err # nil THEN "CheckpointProcessCmd"
    ELSE StepAfter(CheckpointSteps, "CheckpointProcess")

\* mutant: the subprocess error is dropped
AfterCheckpointProcessCmd_IgnoreError(cmdErr) ==
    StepAfter(CheckpointSteps, "CheckpointProcess")

\* the position after CheckpointProcessCmd returned cmdErr
AfterCheckpointProcessCmd(cmdErr) ==
    IF cmdErr # nil THEN "failed"
    ELSE StepAfter(CheckpointSteps, "CheckpointProcess")

\* mutant: only the subprocess error is reported
BothFailedError_CmdOnly(err, cmdErr) ==
    <<"both go-criu and command-line CRIU failed.", "Command error: ">> \o cmdErr

\* the error CheckpointProcess returns when both paths failed
BothFailedError(err, cmdErr) ==
    <<"both go-criu and command-line CRIU failed.", "Library error: ">> \o err
        \o <<"Command error: ">> \o cmdErr

\* the error CheckpointProcessCmd returns for a failed subprocess
CmdError(execErr, output) ==
    <<"CRIU checkpoint failed: ">> \o execErr \o <<"Output: ">> \o output

\* mutant: a failed pre-dump is skipped over
AfterPreDump_Skip(err) == "Dump"

\* the position after criuClient.PreDump returned err
AfterPreDump(err) == IF err # nil THEN "failed" ELSE "Dump"

\* criuClient.PreDump
CheckpointPreDump ==
    /\ ck.pc = "PreDump"
    /\ \/ /\ EngineCalled("PreDump", "preDumpOpts",
                          PreDumpCriuOpts(ck.state.ProcessPID, CkOpts), "ok")
          /\ disk' = EngineWrote(disk, ck.run)
          /\ ck' = [ck EXCEPT !.pc = AfterPreDump(nil)]
       \/ /\ EngineCalled("PreDump", "preDumpOpts",
                          PreDumpCriuOpts(ck.state.ProcessPID, CkOpts), "err")
          /\ disk' \in {disk, EngineWrote(disk, ck.run)}
          /\ IF AfterPreDump(<<"predump-error">>) = "failed"
             THEN CkFail("CRIU checkpoint failed: ",
                         Errorf("pre-dump failed: ", <<"predump-error">>))
             ELSE ck' = [ck EXCEPT !.pc = AfterPreDump(<<"predump-error">>)]
    /\ UNCHANGED <<hostDirs, runs, rs, fnVars, query, pair>>

\* the engine's log file opts.LogFile after a failed Dump: absent, or there
\* with what the engine wrote
LogFilesAfterFailure ==
    {[exists |-> FALSE, data |-> <<>>],
     [exists |-> TRUE, data |-> <<"criu-log-contents">>]}

\* logCRIUError: what reaches the logger (the ReadFile succeeding)
logCRIUError(logFile) ==
    IF logFile.exists THEN <<"CRIU error log:">> \o logFile.data ELSE <<>>

\* criuClient.Dump
CheckpointDump ==
    /\ ck.pc = "Dump"
    /\ \/ /\ EngineCalled("Dump", "dumpOpts",
                          CriuOptsAtDump(ck.state.ProcessPID, CkOpts), "ok")
          /\ disk' = EngineWrote(disk, ck.run)
          /\ ck' = [ck EXCEPT !.pc = AfterDump(nil)]
       \/ /\ EngineCalled("Dump", "dumpOpts",
                          CriuOptsAtDump(ck.state.ProcessPID, CkOpts), "err")
          /\ disk' \in {disk, EngineWrote(disk, ck.run)}
          /\ \E logFile \in LogFilesAfterFailure :
                ck' = [ck EXCEPT !.libErr = <<"dump-error">>,
                                 !.logFile = logFile,
                                 !.logged = logCRIUError(logFile),
                                 !.pc = AfterDump(<<"dump-error">>)]
    /\ UNCHANGED <<hostDirs, runs, rs, fnVars, query, pair>>

\* logCRIUError, then CheckpointProcessCmd
CheckpointFallback ==
    /\ ck.pc = "CheckpointProcessCmd"
    /\ \/ /\ EngineCalled("CheckpointProcessCmd", "cmdArgs",
                          CheckpointProcessCmdArgs(ck.state.ProcessPID, CkOpts), "ok")
          /\ disk' = EngineWrote(disk, ck.run)
          /\ ck' = [ck EXCEPT !.pc = AfterCheckpointProcessCmd(nil)]
       \/ /\ EngineCalled("CheckpointProcessCmd", "cmdArgs",
                          CheckpointProcessCmdArgs(ck.state.ProcessPID, CkOpts), "err")
          /\ disk' \in {disk, EngineWrote(disk, ck.run)}
          /\ LET cmdErr == CmdError(<<"exit-status-1">>, <<"criu-output">>)
             IN ck' = [ck EXCEPT
                         !.pc = AfterCheckpointProcessCmd(cmdErr),
                         !.err = Errorf("CRIU checkpoint failed: ",
                                        BothFailedError(ck.libErr, cmdErr))]
    /\ UNCHANGED <<hostDirs, runs, rs, fnVars, query, pair>>

\* the CheckpointMetadata of step 9
CheckpointMetadata(state, mountMappings) ==
    [ContainerState |-> state, MountMappings |-> mountMappings,
     CheckpointPath |-> "checkpointDir", Version |-> "1.0"]

\* json.MarshalIndent(metadata, "", "  ") of saveCheckpointMetadata
MarshalCheckpointMetadata(metadata) ==
    [container_state |-> MarshalContainerState(metadata.ContainerState),
     mount_mappings |-> MarshalMountMappings(metadata.MountMappings),
     checkpoint_path |-> JsonString(<<metadata.CheckpointPath>>),
     version |-> JsonString(<<metadata.Version>>)]

\* json.Unmarshal(data, &metadata) of GetCheckpointInfo
UnmarshalCheckpointMetadata(obj) ==
    [ContainerState |-> UnmarshalContainerState(obj.container_state),
     MountMappings |-> UnmarshalMountMappings(obj.mount_mappings).mappings,
     CheckpointPath |-> JsonStringValue(obj.checkpoint_path)[1],
     Version |-> JsonStringValue(obj.version)[1]]

\* step 9: saveCheckpointMetadata
CheckpointSaveMetadata ==
    /\ ck.pc = "saveCheckpointMetadata"
    /\ Called("saveCheckpointMetadata")
    /\ \/ /\ disk' = WriteFile(disk, "meta", ck.run,
                               MarshalCheckpointMetadata(
                                   CheckpointMetadata(ck.state, ck.mountMappings)))
          /\ CkAdvance
       \/ /\ CkFail("failed to save checkpoint metadata: ", <<"write-error">>)
          /\ UNCHANGED disk
    /\ UNCHANGED <<hostDirs, runs, rs, fnVars, query, pair>>

\* Checkpoint returns ck.err to its caller
CheckpointReturn ==
    /\ ck.pc \in {"done", "failed"}
    /\ ck' = CkIdle
    /\ eng' = EngIdle
    /\ UNCHANGED <<disk, hostDirs, runs, rs, fnVars, query, pair>>

----------------------------------------------------------------------------
(* Restore                                                                 *)

\* mutant: the engine restore runs before the shell container is stopped
RestoreSteps_RestoreBeforeStop ==
    << "ValidateCheckpoint", "GetCheckpointInfo", "LoadMountMappings",
       "validateRestoreEnvironment", "CreateRestoreContainer",
       "prepareMountNamespace", "StartContainer", "GetContainerPID",
       "CreateExtMountMapFile", "RestoreProcess", "StopContainer",
       "verifyRestoration" >>

RestoreSteps ==
    << "ValidateCheckpoint", "GetCheckpointInfo", "LoadMountMappings",
       "validateRestoreEnvironment", "CreateRestoreContainer",
       "prepareMountNamespace", "StartContainer", "GetContainerPID",
       "StopContainer", "CreateExtMountMapFile", "RestoreProcess",
       "verifyRestoration" >>

\* mutant: the terminal artifact is not among the required files
ValidateCheckpoint_NoTerminalArtifact(d) ==
    IF ~DirExists(d, "checkpointDir")
    THEN <<"checkpoint directory does not exist">>
    ELSE IF ~FileExists(d, "cm")
    THEN <<"missing required file: ", "container_metadata.json">>
    ELSE IF ~FileExists(d, "mm")
    THEN <<"missing required file: ", "mount_mappings.json">>
    ELSE IF ~DirExists(d, "images")
    THEN <<"missing required directory: ", "images">>
    ELSE IF ListFiles(d) = 0
    THEN <<"checkpoint images directory is empty">>
    ELSE nil

\* ValidateCheckpoint: the error it returns, nil when the directory passes
ValidateCheckpoint(d) ==
    IF ~DirExists(d, "checkpointDir")
    THEN <<"checkpoint directory does not exist">>
    ELSE IF ~FileExists(d, "cm")
    THEN <<"missing required file: ", "container_metadata.json">>
    ELSE IF ~FileExists(d, "mm")
    THEN <<"missing required file: ", "mount_mappings.json">>
    ELSE IF ~FileExists(d, "meta")
    THEN <<"missing required file: ", "checkpoint_metadata.json">>
    ELSE IF ~DirExists(d, "images")
    THEN <<"missing required directory: ", "images">>
    ELSE IF ListFiles(d) = 0
    THEN <<"checkpoint images directory is empty">>
    ELSE nil

\* the external mappings of the list whose host path is not on the host
MissingSources(mappings, host) ==
    {k \in 1..Len(mappings) :
        /\ mappings[k].IsExternal
        /\ mappings[k].HostPath # EmptyString
        /\ ~HostPathExists(host, mappings[k].HostPath)}

\* mutant: a missing mount source is an error
prepareMountNamespace_FailOnMissing(mappings, autoFix, host, failing) ==
    IF MissingSources(mappings, host) # {}
    THEN [err |-> <<"mount source does not exist">>, host |-> host]
    ELSE [err |-> nil, host |-> host]

\* prepareMountNamespace: [err, host]; failing are the paths at which
\* os.MkdirAll fails
RECURSIVE prepareMountNamespace(_, _, _, _)
prepareMountNamespace(mappings, autoFix, host, failing) ==
    IF mappings = <<>> THEN [err |-> nil, host |-> host]
    ELSE LET mapping == Head(mappings)
         IN IF /\ mapping.IsExternal
               /\ mapping.HostPath # EmptyString
               /\ ~HostPathExists(host, mapping.HostPath)
               /\ autoFix
            THEN LET e == EnsureHostDir(host, mapping.HostPath, failing)
                 IN IF e.err # nil
                    THEN [err |-> Errorf("failed to create mount source: ", e.err),
                          host |-> e.host]
                    ELSE prepareMountNamespace(Tail(mappings), autoFix, e.host,
                                               failing)
            ELSE prepareMountNamespace(Tail(mappings), autoFix, host, failing)

RECURSIVE ExtMountMapLines(_)
ExtMountMapLines(mappings) ==
    IF mappings = <<>> THEN <<>>
    ELSE LET mapping == Head(mappings)
             rest == ExtMountMapLines(Tail(mappings))
         IN IF mapping.IsExternal /\ mapping.HostPath # EmptyString
            THEN <<mapping.ContainerPath \o <<":">> \o mapping.HostPath>> \o rest
            ELSE rest

\* the content CreateExtMountMapFile writes: the mapping lines in list order,
\* then the standard mappings in the iteration order of a Go map
ExtMountMapContent(mappings) ==
    [lines |-> ExtMountMapLines(mappings),
     standard |-> {p \o <<":">> \o p : p \in SystemHostPaths}]

\* mutant: an error return removes the shell container
ContainerAfterFailure_Removed(container) == "none"

\* the shell container after an error return of Restore: every error path
\* is a plain `return fmt.Errorf(...)`, nothing is deferred and
\* RemoveContainer is not called
ContainerAfterFailure(container) == container

RsFail(text, cause) ==
    rs' = [rs EXCEPT !.pc = "failed", !.err = Errorf(text, cause),
                     !.container = ContainerAfterFailure(@)]

RsAdvance == rs' = [rs EXCEPT !.pc = StepAfter(RestoreSteps, rs.pc)]

\* step 1 of a Restore that begins in start on the directory d
ValidateCheckpointStep(start, d) ==
    LET err == ValidateCheckpoint(d)
    IN /\ rs' = IF err # nil
                THEN [start EXCEPT !.pc = "failed",
                          !.err = Errorf("checkpoint validation failed: ", err)]
                ELSE [start EXCEPT
                          !.pc = StepAfter(RestoreSteps, "ValidateCheckpoint")]
       /\ eng' = [EngIdle EXCEPT !.calls = <<"ValidateCheckpoint">>]

\* step 1: ValidateCheckpoint
RestoreValidateCheckpoint ==
    /\ Idle
    /\ \E config \in RestoreConfigs :
          ValidateCheckpointStep([RsIdle EXCEPT !.config = config], disk)
    /\ UNCHANGED <<disk, hostDirs, runs, ck, fnVars, query, pair>>

\* filepath.Join(os.TempDir(), "docker-cr-restore") of an invocation: the
\* path of the checkpoint directory it is given, or another path
TempDirs == {"checkpointDir", "/tmp/docker-cr-restore"}

\* utils.EnsureDir(tempDir) on the checkpoint directory d
EnsureTempDir(tempDir, d) ==
    IF tempDir = "checkpointDir" THEN [d EXCEPT !.dir = TRUE] ELSE d

\* the deferred utils.RemoveDir(tempDir): os.RemoveAll when it is a directory
RemoveTempDir(tempDir, d) ==
    IF tempDir = "checkpointDir" /\ d.dir THEN EmptyDisk ELSE d

\* RestoreFromArchive up to step 1 of the Restore it calls: EnsureDir of the
\* temporary directory, the deferred removal, config.CheckpointDir = archivePath.
\* A temporary directory at another path is outside the state; the
\* invocation records only whether the deferred removal names the
\* checkpoint directory.
RestoreFromArchive ==
    /\ Idle
    /\ \E config \in RestoreConfigs, tempDir \in TempDirs :
          \/ /\ tempDir = "checkpointDir" => ~disk.dir
             /\ rs' = [RsIdle EXCEPT !.config = config, !.pc = "failed",
                                     !.err = Errorf("failed to create temp directory: ",
                                                    <<"mkdir-error">>)]
             /\ eng' = EngIdle
             /\ UNCHANGED disk
          \/ /\ disk' = EnsureTempDir(tempDir, disk)
             /\ ValidateCheckpointStep(
                    [RsIdle EXCEPT !.config = config,
                        !.tempIsCheckpointDir = (tempDir = "checkpointDir")],
                    EnsureTempDir(tempDir, disk))
    /\ UNCHANGED <<hostDirs, runs, ck, fnVars, query, pair>>

\* step 2: GetCheckpointInfo
RestoreGetCheckpointInfo ==
    /\ rs.pc = "GetCheckpointInfo"
    /\ Called("GetCheckpointInfo")
    /\ \/ /\ FileExists(disk, "meta")
          /\ LET metadata == UnmarshalCheckpointMetadata(disk.meta.data)
             IN rs' = [rs EXCEPT
                      !.originalState = metadata.ContainerState,
                      !.metaMappings = metadata.MountMappings,
                      !.pc = StepAfter(RestoreSteps, "GetCheckpointInfo")]
       \/ RsFail("failed to load checkpoint metadata: ", <<"read-error">>)
    /\ UNCHANGED <<disk, hostDirs, runs, ck, fnVars, query, pair>>

\* step 3: LoadMountMappings
RestoreLoadMountMappings ==
    /\ rs.pc = "LoadMountMappings"
    /\ Called("LoadMountMappings")
    /\ \/ /\ FileExists(disk, "mm")
          /\ UnmarshalMountMappings(disk.mm.data).err = nil
          /\ rs' = [rs EXCEPT
                      !.mountMappings = UnmarshalMountMappings(disk.mm.data).mappings,
                      !.pc = StepAfter(RestoreSteps, "LoadMountMappings")]
       \/ RsFail("failed to load mount mappings: ", <<"read-error">>)
    /\ UNCHANGED <<disk, hostDirs, runs, ck, fnVars, query, pair>>

\* step 4: validateRestoreEnvironment, which only logs
RestoreValidateEnvironment ==
    /\ rs.pc = "validateRestoreEnvironment"
    /\ IF rs.config.ValidateEnv
       THEN Called("validateRestoreEnvironment")
       ELSE UNCHANGED eng
    /\ RsAdvance
    /\ UNCHANGED <<disk, hostDirs, runs, ck, fnVars, query, pair>>

\* step 5: CreateRestoreContainer
RestoreCreateContainer ==
    /\ rs.pc = "CreateRestoreContainer"
    /\ Called("CreateRestoreContainer")
    /\ \/ rs' = [rs EXCEPT !.container = "created",
                           !.pc = StepAfter(RestoreSteps, "CreateRestoreContainer")]
       \/ RsFail("failed to create restore container: ", <<"create-error">>)
    /\ UNCHANGED <<disk, hostDirs, runs, ck, fnVars, query, pair>>

\* step 6: prepareMountNamespace
RestorePrepareMountNamespace ==
    /\ rs.pc = "prepareMountNamespace"
    /\ Called("prepareMountNamespace")
    /\ \E failing \in SUBSET UserHostPaths :
          LET v == prepareMountNamespace(rs.mountMappings,
                                         rs.config.AutoFixMounts, hostDirs, failing)
          IN /\ hostDirs' = v.host
             /\ IF v.err # nil
                THEN RsFail("failed to prepare mount namespace: ", v.err)
                ELSE RsAdvance
    /\ UNCHANGED <<disk, runs, ck, fnVars, query, pair>>

\* step 7: StartContainer
RestoreStartContainer ==
    /\ rs.pc = "StartContainer"
    /\ Called("StartContainer")
    /\ \/ rs' = [rs EXCEPT !.container = "running",
                           !.pc = StepAfter(RestoreSteps, "StartContainer")]
       \/ RsFail("failed to start restore container: ", <<"start-error">>)
    /\ UNCHANGED <<disk, hostDirs, runs, ck, fnVars, query, pair>>

\* step 8: GetContainerPID
RestoreGetContainerPID ==
    /\ rs.pc = "GetContainerPID"
    /\ Called("GetContainerPID")
    /\ \/ RsAdvance
       \/ RsFail("failed to get container PID: ", <<"no-pid">>)
    /\ UNCHANGED <<disk, hostDirs, runs, ck, fnVars, query, pair>>

\* mutant: Restore returns on the StopContainer error
AfterStopContainer_Fatal(err) ==
    IF err # nil THEN "failed" ELSE StepAfter(RestoreSteps, "StopContainer")

\* the position after StopContainer returned err, which is only logged
AfterStopContainer(err) == StepAfter(RestoreSteps, "StopContainer")

\* step 9: StopContainer
RestoreStopContainer ==
    /\ rs.pc = "StopContainer"
    /\ Called("StopContainer")
    /\ \/ rs' = [rs EXCEPT !.container = "stopped",
                           !.pc = AfterStopContainer(nil)]
       \/ rs' = [rs EXCEPT !.stopErr = <<"stop-error">>,
                           !.pc = AfterStopContainer(<<"stop-error">>)]
    /\ UNCHANGED <<disk, hostDirs, runs, ck, fnVars, query, pair>>

\* step 10: CreateExtMountMapFile
RestoreCreateExtMountMapFile ==
    /\ rs.pc = "CreateExtMountMapFile"
    /\ Called("CreateExtMountMapFile")
    /\ \/ /\ disk' = WriteFile(disk, "extmap", 0, ExtMountMapContent(rs.mountMappings))
          /\ RsAdvance
       \/ /\ RsFail("failed to create external mount map: ", <<"write-error">>)
          /\ UNCHANGED disk
    /\ UNCHANGED <<hostDirs, runs, ck, fnVars, query, pair>>

\* mutant: a failed engine restore is tried again
AfterRestore_Retry(err) ==
    IF err # nil THEN "RestoreProcess"
    ELSE StepAfter(RestoreSteps, "RestoreProcess")

\* the position after criuClient.Restore returned err: RestoreProcess and
\* Restore both return on the error
AfterRestore(err) ==
    IF err # nil THEN "failed"
    ELSE StepAfter(RestoreSteps, "RestoreProcess")

\* step 11: RestoreProcess; it fails before the engine call when the work
\* directory cannot be made or the images directory is missing or unreadable
RestoreProcess ==
    /\ rs.pc = "RestoreProcess"
    /\ LET opts == RestoreOptions(rs.config, rs.mountMappings)
       IN \/ /\ RsFail("CRIU restore failed: ",
                       Errorf("failed to open images directory: ", <<"open-error">>))
             /\ Called("RestoreProcess")
          \/ /\ DirExists(disk, "images")
             /\ EngineCalled("Restore", "restoreOpts", RestoreCriuOpts(opts), "ok")
             /\ rs' = [rs EXCEPT !.pc = AfterRestore(nil)]
          \/ /\ DirExists(disk, "images")
             /\ EngineCalled("Restore", "restoreOpts", RestoreCriuOpts(opts), "err")
             /\ IF AfterRestore(<<"restore-error">>) = "failed"
                THEN RsFail("CRIU restore failed: ",
                            Errorf("CRIU restore failed: ", <<"restore-error">>))
                ELSE rs' = [rs EXCEPT !.pc = AfterRestore(<<"restore-error">>)]
    /\ UNCHANGED <<disk, hostDirs, runs, ck, fnVars, query, pair>>

\* mutant: the error of the re-query is returned
verifyRestoration_Propagate(answer) == GetContainerState(answer).err

\* verifyRestoration: the error of GetContainerState is logged and nil
\* returned; with a state, the state and the logs are logged and nil returned
verifyRestoration(answer) ==
    IF GetContainerState(answer).err # nil THEN nil ELSE nil

\* step 12: verifyRestoration on what the runtime answers for the new name
RestoreVerify ==
    /\ rs.pc = "verifyRestoration"
    /\ Called("verifyRestoration")
    /\ \E answer \in InspectAnswers :
          LET err == verifyRestoration(answer)
          IN rs' = IF err # nil
                   THEN [rs EXCEPT !.verify = answer, !.pc = "failed",
                             !.err = Errorf("restore verification failed: ", err)]
                   ELSE [rs EXCEPT !.verify = answer,
                             !.pc = StepAfter(RestoreSteps, "verifyRestoration")]
    /\ UNCHANGED <<disk, hostDirs, runs, ck, fnVars, query, pair>>

\* Restore returns rs.err to its caller
RestoreReturn ==
    /\ rs.pc \in {"done", "failed"}
    /\ rs' = RsIdle
    /\ eng' = EngIdle
    /\ disk' = IF rs.tempIsCheckpointDir
               THEN RemoveTempDir("checkpointDir", disk) ELSE disk
    /\ UNCHANGED <<hostDirs, runs, ck, fnVars, query, pair>>

----------------------------------------------------------------------------
(* The read-only consumers of a checkpoint directory                       *)

NoQuery == [op |-> "none", err |-> nil, value |-> <<>>]

\* GetCheckpointInfo: [err, value] with the CheckpointMetadata
GetCheckpointInfo(d) ==
    IF ~FileExists(d, "meta")
    THEN [err |-> <<"checkpoint metadata file not found">>, value |-> <<>>]
    ELSE [err |-> nil, value |-> UnmarshalCheckpointMetadata(d.meta.data)]

\* GetRestoreOptions: [err, value] with the default RestoreConfig
GetRestoreOptions(d) ==
    LET metadata == GetCheckpointInfo(d)
    IN IF metadata.err # nil
       THEN [err |-> Errorf("failed to load checkpoint metadata: ", metadata.err),
             value |-> <<>>]
       ELSE [err |-> nil,
             value |-> [RestoreConfig(TRUE, TRUE, <<>>) EXCEPT
                          !.NewContainerName =
                              <<metadata.value.ContainerState.Name, "-restored">>]]

\* Analyzer.AnalyzeCheckpoint: [err, value] with the CheckpointAnalysis; each
\* of the three artifacts is loaded when it is there and left nil otherwise
AnalyzeCheckpoint(d) ==
    [err |-> nil,
     value |->
        [Metadata |-> IF FileExists(d, "meta")
                      THEN <<UnmarshalCheckpointMetadata(d.meta.data)>> ELSE <<>>,
         MountMappings |-> IF FileExists(d, "mm")
                           THEN UnmarshalMountMappings(d.mm.data).mappings
                           ELSE <<>>,
         CRIUInfo |-> IF DirExists(d, "images") THEN <<ListFiles(d)>> ELSE <<>>]]

Queried(op, r) ==
    /\ Idle
    /\ query' = [op |-> op, err |-> r.err, value |-> r.value]
    /\ UNCHANGED <<disk, hostDirs, runs, ck, rs, eng, fnVars, pair>>

QueryValidateCheckpoint ==
    Queried("ValidateCheckpoint", [err |-> ValidateCheckpoint(disk), value |-> <<>>])

QueryGetCheckpointInfo ==
    \/ Queried("GetCheckpointInfo", GetCheckpointInfo(disk))
    \/ /\ FileExists(disk, "meta")
       /\ Queried("GetCheckpointInfo",
                  [err |-> Errorf("failed to read checkpoint metadata: ",
                                  <<"read-error">>),
                   value |-> <<>>])

QueryGetRestoreOptions == Queried("GetRestoreOptions", GetRestoreOptions(disk))

QueryAnalyzeCheckpoint == Queried("AnalyzeCheckpoint", AnalyzeCheckpoint(disk))

\* the operation returns to its caller
QueryReturn ==
    /\ query.op # "none"
    /\ query' = NoQuery
    /\ UNCHANGED <<disk, hostDirs, runs, ck, rs, eng, fnVars, pair>>

----------------------------------------------------------------------------
(* The environment between invocations                                     *)

\* external cleanup removes one artifact of the checkpoint directory
ExternalRemoveFile ==
    /\ Idle
    /\ \E name \in {"mm", "cm", "meta"} :
          /\ disk[name].exists
          /\ disk' = [disk EXCEPT ![name] = NoFile]
    /\ UNCHANGED <<hostDirs, runs, ck, rs, eng, fnVars, query, pair>>

\* external cleanup empties or removes the images directory
ExternalRemoveImages ==
    /\ Idle
    /\ disk.images.exists
    /\ \/ disk' = [disk EXCEPT !.images = NoImages]
       \/ /\ disk.images.by # 0
          /\ disk' = [disk EXCEPT !.images = [exists |-> TRUE, by |-> 0]]
    /\ UNCHANGED <<hostDirs, runs, ck, rs, eng, fnVars, query, pair>>

\* a mount source is deleted on the host
ExternalRemoveHostDir ==
    /\ Idle
    /\ \E p \in hostDirs.present :
          hostDirs' = [hostDirs EXCEPT !.present = @ \ {p}]
    /\ UNCHANGED <<disk, runs, ck, rs, eng, fnVars, query, pair>>

----------------------------------------------------------------------------
(* The orchestrators                                                       *)

FnRest ==
    /\ fnOp = "BuildExternalMountMappings"
    /\ fnMappings = <<>>
    /\ fnSkip = <<>>
    /\ fnDone = FALSE
    /\ fnOut = <<>>
    /\ fnHost = HostFs({}, {})
    /\ fnFailing = {}
    /\ fnReturned = <<>>
    /\ fnState = ContainerState(<<>>)
    /\ fnFile = NoFile

\* no pair of invocations is under way
NoPair == [fs |-> {}, fs0 |-> {}, inv |-> <<>>]

WfRest ==
    /\ disk = EmptyDisk
    /\ hostDirs = HostFs({}, {})
    /\ runs = 0
    /\ ck = CkIdle
    /\ rs = RsIdle
    /\ eng = EngIdle
    /\ query = NoQuery

Init ==
    /\ FnRest
    /\ disk = EmptyDisk
    /\ hostDirs \in HostFsStates(UserHostPaths)
    /\ runs = 0
    /\ ck = CkIdle
    /\ rs = RsIdle
    /\ eng = EngIdle
    /\ query = NoQuery
    /\ pair = NoPair

Next ==
    \/ CheckpointGetContainerState
    \/ CheckpointEnsureDir
    \/ CheckpointMountMappings
    \/ CheckpointSaveMountMappings
    \/ CheckpointSaveContainerMetadata
    \/ CheckpointProcessOpen
    \/ CheckpointPreDump
    \/ CheckpointDump
    \/ CheckpointFallback
    \/ CheckpointSaveMetadata
    \/ CheckpointReturn
    \/ RestoreValidateCheckpoint
    \/ RestoreFromArchive
    \/ RestoreGetCheckpointInfo
    \/ RestoreLoadMountMappings
    \/ RestoreValidateEnvironment
    \/ RestoreCreateContainer
    \/ RestorePrepareMountNamespace
    \/ RestoreStartContainer
    \/ RestoreGetContainerPID
    \/ RestoreStopContainer
    \/ RestoreCreateExtMountMapFile
    \/ RestoreProcess
    \/ RestoreVerify
    \/ RestoreReturn
    \/ QueryValidateCheckpoint
    \/ QueryGetCheckpointInfo
    \/ QueryGetRestoreOptions
    \/ QueryAnalyzeCheckpoint
    \/ QueryReturn
    \/ ExternalRemoveFile
    \/ ExternalRemoveImages
    \/ ExternalRemoveHostDir

Spec == Init /\ [][Next]_vars

----------------------------------------------------------------------------
(* The mount reconciler's functions on arbitrary inputs                    *)

FnOps == {"BuildExternalMountMappings", "BuildExtMountMapArgs",
          "buildExternalMountArgs", "RestoreProcess", "ValidateMountSources",
          "SaveMountMappings", "SaveContainerMetadata", "checkpointCommand",
          "ValidateCheckpoint", "Restore", "RestoreOptions"}

\* the mount sources ValidateMountSources is run on
FnHostPaths == {HostTmpD1, HostTmpD2}

ValidateUniverse ==
    {MountMapping(PathData, hp, "bind", ext) :
        hp \in {EmptyString, HostTmpD1, HostTmpD2}, ext \in BOOLEAN}

ValidateLists == SeqsUpTo(ValidateUniverse, MaxMounts)

\* a path holding the characters json.Marshal escapes
PathEscaped == <<"/a", "\"", "\\", "<", "&", "b">>

\* the mapping lists and container states that are saved and loaded again
RoundTripUniverse ==
    {[ContainerPath |-> cp, HostPath |-> hp, Type |-> ty[1], Options |-> ty[2],
      IsExternal |-> ext, ReadOnly |-> ro] :
        cp \in {PathData, PathEscaped}, hp \in {EmptyString, PathEscaped},
        ty \in {<<"bind", "">>, <<"", "\"">>}, ext \in BOOLEAN, ro \in BOOLEAN}

RoundTripLists == SeqsUpTo(RoundTripUniverse, MaxMounts)

RoundTripMounts ==
    {MountPoint(PathData, HostTmpD1, TRUE),
     [MountPoint(PathEscaped, PathEscaped, FALSE) EXCEPT !.Type = "", !.Mode = "<"]}

RoundTripStates ==
    {[ContainerState(mounts) EXCEPT !.Name = name, !.ProcessPID = pid] :
        mounts \in SeqsUpTo(RoundTripMounts, MaxMounts),
        name \in {"c1", "\""}, pid \in {0, 100}}

InitFn ==
    /\ fnOp \in FnOps
    /\ fnMappings \in (CASE fnOp = "ValidateMountSources" -> ValidateLists
                         [] fnOp = "SaveMountMappings" -> RoundTripLists
                         [] fnOp \in {"SaveContainerMetadata", "checkpointCommand",
                                      "ValidateCheckpoint", "Restore"} -> {<<>>}
                         [] OTHER -> MappingLists)
    /\ fnSkip \in (IF fnOp \in {"buildExternalMountArgs", "RestoreProcess"}
                   THEN SkipLists ELSE {<<>>})
    /\ fnDone = FALSE
    /\ fnOut = <<>>
    /\ fnHost \in (IF fnOp = "ValidateMountSources"
                   THEN HostFsStates(FnHostPaths) ELSE {HostFs({}, {})})
    /\ fnFailing \in (IF fnOp = "ValidateMountSources"
                      THEN SUBSET FnHostPaths ELSE {{}})
    /\ fnReturned = <<>>
    /\ fnState \in (IF fnOp = "SaveContainerMetadata"
                    THEN RoundTripStates ELSE {ContainerState(<<>>)})
    /\ fnFile = NoFile
    /\ WfRest
    /\ pair = NoPair

ApplyBuildExternalMountMappings ==
    /\ fnOp = "BuildExternalMountMappings" /\ ~fnDone
    /\ fnOut' = BuildExternalMountMappings(fnMappings)
    /\ fnDone' = TRUE
    /\ UNCHANGED <<fnOp, fnMappings, fnSkip, fnHost, fnFailing, fnReturned,
                   fnState, fnFile, wfVars, pair>>

ApplyBuildExtMountMapArgs ==
    /\ fnOp = "BuildExtMountMapArgs" /\ ~fnDone
    /\ fnOut' = BuildExtMountMapArgs(fnMappings)
    /\ fnDone' = TRUE
    /\ UNCHANGED <<fnOp, fnMappings, fnSkip, fnHost, fnFailing, fnReturned,
                   fnState, fnFile, wfVars, pair>>

ApplyBuildExternalMountArgs ==
    /\ fnOp = "buildExternalMountArgs" /\ ~fnDone
    /\ fnOut' = buildExternalMountArgs(fnMappings, fnSkip)
    /\ fnDone' = TRUE
    /\ UNCHANGED <<fnOp, fnMappings, fnSkip, fnHost, fnFailing, fnReturned,
                   fnState, fnFile, wfVars, pair>>

ApplyRestoreProcessExternal ==
    /\ fnOp = "RestoreProcess" /\ ~fnDone
    /\ fnOut' = RestoreEngineExternal(fnMappings, fnSkip)
    /\ fnDone' = TRUE
    /\ UNCHANGED <<fnOp, fnMappings, fnSkip, fnHost, fnFailing, fnReturned,
                   fnState, fnFile, wfVars, pair>>

\* ValidateMountSources on the host as it is; the first run, then a second
\* one directly after it
ApplyValidateMountSources ==
    /\ fnOp = "ValidateMountSources" /\ ~fnDone
    /\ LET v == ValidateMountSources(fnMappings, fnHost, fnFailing)
       IN /\ fnReturned' = Append(fnReturned, v)
          /\ fnHost' = v.host
    /\ fnDone' = (Len(fnReturned) = 1)
    /\ UNCHANGED <<fnOp, fnMappings, fnSkip, fnOut, fnFailing, fnState, fnFile,
                   wfVars, pair>>

\* SaveMountMappings: the file is written, or utils.WriteFile fails
ApplySaveMountMappings ==
    /\ fnOp = "SaveMountMappings" /\ ~fnDone /\ ~fnFile.exists
    /\ \/ fnFile' = File(0, MarshalMountMappings(fnMappings))
       \/ fnFile' = fnFile
    /\ UNCHANGED <<fnOp, fnMappings, fnSkip, fnDone, fnOut, fnHost, fnFailing,
                   fnReturned, fnState, wfVars, pair>>

\* LoadMountMappings: [err, value]
ApplyLoadMountMappings ==
    /\ fnOp = "SaveMountMappings" /\ ~fnDone
    /\ \/ /\ ~fnFile.exists
          /\ fnReturned' = <<[err |-> <<"mount mappings file not found">>,
                              value |-> <<>>]>>
       \/ /\ fnFile.exists
          /\ fnReturned' = <<[err |-> Errorf("failed to read mount mappings: ",
                                             <<"read-error">>),
                              value |-> <<>>]>>
       \/ /\ fnFile.exists
          /\ LET v == UnmarshalMountMappings(fnFile.data)
             IN fnReturned' =
                  <<[err |-> IF v.err = nil THEN nil
                             ELSE Errorf("failed to parse mount mappings: ", v.err),
                     value |-> v.mappings]>>
    /\ fnDone' = TRUE
    /\ UNCHANGED <<fnOp, fnMappings, fnSkip, fnOut, fnHost, fnFailing, fnState,
                   fnFile, wfVars, pair>>

\* SaveContainerMetadata: the file is written, or writeFile fails
ApplySaveContainerMetadata ==
    /\ fnOp = "SaveContainerMetadata" /\ ~fnDone /\ ~fnFile.exists
    /\ \/ fnFile' = File(0, MarshalContainerState(fnState))
       \/ fnFile' = fnFile
    /\ UNCHANGED <<fnOp, fnMappings, fnSkip, fnDone, fnOut, fnHost, fnFailing,
                   fnReturned, fnState, wfVars, pair>>

\* LoadContainerMetadata: [err, value]
ApplyLoadContainerMetadata ==
    /\ fnOp = "SaveContainerMetadata" /\ ~fnDone
    /\ \/ fnReturned' = <<[err |-> Errorf("failed to read metadata file: ",
                                          <<"read-error">>),
                           value |-> <<>>]>>
       \/ /\ fnFile.exists
          /\ fnReturned' = <<[err |-> nil,
                              value |-> UnmarshalContainerState(fnFile.data)]>>
    /\ fnDone' = TRUE
    /\ UNCHANGED <<fnOp, fnMappings, fnSkip, fnOut, fnHost, fnFailing, fnState,
                   fnFile, wfVars, pair>>

\* the --output values the checkpoint command is run with
OutputDirs == {<<"/out">>, <<"/out", "/">>}

\* filepath.Clean on a path of names and "/" separators: a separator before
\* another separator or at the end is dropped
RECURSIVE Clean(_)
Clean(path) ==
    IF path = <<>> THEN <<>>
    ELSE IF Head(path) = "/" /\ (Len(path) = 1 \/ path[2] = "/")
         THEN Clean(Tail(path))
         ELSE <<Head(path)>> \o Clean(Tail(path))

\* filepath.Join(config.OutputDir, state.Name, config.CheckpointName)
JoinCheckpointDir(outputDir, name, checkpointName) ==
    Clean(outputDir \o <<"/", name, "/", checkpointName>>)

\* fmt.Sprintf("%s/%s/%s", outputDir, containerName, checkpointName)
SprintfCheckpointDir(outputDir, containerName, checkpointName) ==
    outputDir \o <<"/", containerName, "/", checkpointName>>

\* the checkpoint command on a running container, given its name or its ID:
\* the directory Checkpoint writes to and the one the command lists and
\* prints as Location
ApplyCheckpointCommand ==
    /\ fnOp = "checkpointCommand" /\ ~fnDone
    /\ \E containerName \in {fnState.Name, fnState.ID}, outputDir \in OutputDirs :
          fnOut' = [containerName |-> containerName,
                    written |-> JoinCheckpointDir(outputDir, fnState.Name, "checkpoint"),
                    location |-> SprintfCheckpointDir(outputDir, containerName,
                                                      "checkpoint")]
    /\ fnDone' = TRUE
    /\ UNCHANGED <<fnOp, fnMappings, fnSkip, fnHost, fnFailing, fnReturned,
                   fnState, fnFile, wfVars, pair>>

\* what os.Stat answers for the path given to ValidateCheckpoint: a
\* directory, a regular file, nothing there (ENOENT), a path below a regular
\* file (ENOTDIR), a path below a directory that may not be searched (EACCES)
StatOutcomes == {"directory", "file", "ENOENT", "ENOTDIR", "EACCES"}

\* utils.DirExists on that answer, `!os.IsNotExist(err) && info.IsDir()`:
\* "true", "false", or "panic" when err is another error than ENOENT, info is
\* nil and info.IsDir() is called on it
DirExistsOn(stat) ==
    IF stat = "ENOENT" THEN "false"
    ELSE IF stat \in {"ENOTDIR", "EACCES"} THEN "panic"
    ELSE IF stat = "directory" THEN "true" ELSE "false"

\* the contents of a directory given to ValidateCheckpoint: empty, or a
\* complete checkpoint
DirectoryContents ==
    {[EmptyDisk EXCEPT !.dir = TRUE],
     EngineWrote(WriteFile(WriteFile(WriteFile(EmptyDisk, "cm", 1, <<>>),
                                     "mm", 1, <<>>), "meta", 1, <<>>), 1)}

\* ValidateCheckpoint on a path for which os.Stat answers stat and which,
\* when it is a directory, holds d: [panic, err]
ValidateCheckpointAt(stat, d) ==
    IF DirExistsOn(stat) = "panic" THEN [panic |-> TRUE, err |-> nil]
    ELSE IF DirExistsOn(stat) = "false"
         THEN [panic |-> FALSE, err |-> <<"checkpoint directory does not exist">>]
         ELSE [panic |-> FALSE, err |-> ValidateCheckpoint(d)]

ApplyValidateCheckpoint ==
    /\ fnOp = "ValidateCheckpoint" /\ ~fnDone
    /\ \E stat \in StatOutcomes, d \in DirectoryContents :
          fnOut' = [stat |-> stat, d |-> d,
                    returned |-> ValidateCheckpointAt(stat, d)]
    /\ fnDone' = TRUE
    /\ UNCHANGED <<fnOp, fnMappings, fnSkip, fnHost, fnFailing, fnReturned,
                   fnState, fnFile, wfVars, pair>>

\* the JSON document {}
EmptyJsonObject == <<>>

\* the container IDs found in a checkpoint_metadata.json
MetadataIDs == {"0123456789abcdef", "abc", ""}

\* len(id)
StrLen(id) ==
    CASE id = "0123456789abcdef" -> 16
      [] id = "abc" -> 3
      [] id = "" -> 0

\* the checkpoint_metadata.json documents Restore is run on: written by
\* saveCheckpointMetadata, {}, and {"container_state": {}}
MetadataDocuments ==
    {MarshalCheckpointMetadata(
         CheckpointMetadata([ContainerState(<<>>) EXCEPT !.ID = id], <<>>)) :
        id \in MetadataIDs}
    \cup {EmptyJsonObject, [container_state |-> EmptyJsonObject]}

\* metadata.ContainerState after json.Unmarshal: <<>> is the nil pointer a
\* document without container_state leaves
MetadataContainerState(data) ==
    IF "container_state" \in DOMAIN data
    THEN <<UnmarshalContainerState(data.container_state)>>
    ELSE <<>>

\* Restore from step 2 to its first log line, which reads
\* originalState.Name and originalState.ID[:12]: [panic, originalState]
RestoreOriginalState(data) ==
    LET originalState == MetadataContainerState(data)
    IN IF originalState = <<>>
       THEN [panic |-> TRUE, originalState |-> <<>>]
       ELSE IF StrLen(originalState[1].ID) < 12
            THEN [panic |-> TRUE, originalState |-> originalState]
            ELSE [panic |-> FALSE, originalState |-> originalState]

ApplyRestoreOriginalState ==
    /\ fnOp = "Restore" /\ ~fnDone
    /\ \E data \in MetadataDocuments :
          fnOut' = [data |-> data, returned |-> RestoreOriginalState(data)]
    /\ fnDone' = TRUE
    /\ UNCHANGED <<fnOp, fnMappings, fnSkip, fnHost, fnFailing, fnReturned,
                   fnState, fnFile, wfVars, pair>>

\* the IDs the runtime gives the shell container and the PIDs it runs as
ShellContainerIDs == {"aaaaaaaaaaaa", "bbbbbbbbbbbb"}

ShellPIDs == {200, 300}

\* mutant: the engine is told the PID of the shell container
RestoreEngineOpts_WithPid(config, mountMappings, containerID, newPID) ==
    LET opts == RestoreCriuOpts(RestoreOptions(config, mountMappings))
    IN [f \in DOMAIN opts \cup {"Pid"} |-> IF f = "Pid" THEN newPID ELSE opts[f]]

\* steps 5 to 11 of Restore as far as the engine's options go: containerID
\* goes to prepareMountNamespace, StartContainer, GetContainerPID,
\* StopContainer and the log, newPID to the log; criuOpts is built from
\* config and mountMappings
RestoreEngineOpts(config, mountMappings, containerID, newPID) ==
    RestoreCriuOpts(RestoreOptions(config, mountMappings))

ApplyRestoreEngineOpts ==
    /\ fnOp = "RestoreOptions" /\ ~fnDone
    /\ \E config \in RestoreConfigs, containerID \in ShellContainerIDs,
          newPID \in ShellPIDs :
          fnOut' = [config |-> config, containerID |-> containerID,
                    newPID |-> newPID,
                    opts |-> RestoreEngineOpts(config, fnMappings, containerID,
                                               newPID)]
    /\ fnDone' = TRUE
    /\ UNCHANGED <<fnOp, fnMappings, fnSkip, fnHost, fnFailing, fnReturned,
                   fnState, fnFile, wfVars, pair>>

NextFn ==
    \/ ApplyCheckpointCommand
    \/ ApplyRestoreEngineOpts
    \/ ApplyRestoreOriginalState
    \/ ApplyValidateCheckpoint
    \/ ApplySaveMountMappings
    \/ ApplyLoadMountMappings
    \/ ApplySaveContainerMetadata
    \/ ApplyLoadContainerMetadata
    \/ ApplyValidateMountSources
    \/ ApplyBuildExternalMountMappings
    \/ ApplyBuildExtMountMapArgs
    \/ ApplyBuildExternalMountArgs
    \/ ApplyRestoreProcessExternal

SpecMounts == InitFn /\ [][NextFn]_vars

----------------------------------------------------------------------------
(* Two invocations side by side, on different containers and disjoint      *)
(* checkpoint directories, as the file-system operations they perform      *)

Invocations == {1, 2}

InvocationKinds == {"Checkpoint", "Restore", "RestoreFromArchive"}

\* filepath.Join(os.TempDir(), "docker-cr-restore"), the same for both
TempDir == <<"/tmp", "/docker-cr-restore">>

\* filepath.Join(config.OutputDir, state.Name, config.CheckpointName) of
\* invocation i, and an artifact inside it
CheckpointDirOf(i) == <<IF i = 1 THEN "/ckpt/c1" ELSE "/ckpt/c2">>

InDir(i, name) == CheckpointDirOf(i) \o <<name>>

\* the bind-mount sources of a container: none, or /tmp/d1
PairSources == {<<>>, <<HostTmpD1>>}

FsOp(op, path) == [op |-> op, path |-> path]

EnsureDirOps(paths) == [k \in 1..Len(paths) |-> FsOp("EnsureDir", paths[k])]

\* Checkpoint: EnsureDir(imagesDir), ValidateMountSources, SaveMountMappings,
\* SaveContainerMetadata, CheckpointProcess (EnsureDir of WorkDir and
\* ImagesDir, the engine's image files), saveCheckpointMetadata
CheckpointFsOps(i, sources) ==
    <<FsOp("EnsureDir", InDir(i, "images"))>>
    \o EnsureDirOps(sources)
    \o <<FsOp("WriteFile", InDir(i, "mount_mappings.json")),
         FsOp("WriteFile", InDir(i, "container_metadata.json")),
         FsOp("EnsureDir", CheckpointDirOf(i)),
         FsOp("EnsureDir", InDir(i, "images")),
         FsOp("WriteFile", InDir(i, "images")),
         FsOp("WriteFile", InDir(i, "checkpoint_metadata.json"))>>

\* Restore: ValidateCheckpoint, prepareMountNamespace with autoFix,
\* CreateExtMountMapFile, RestoreProcess (EnsureDir of WorkDir)
RestoreFsOps(i, sources) ==
    <<FsOp("DirExists", CheckpointDirOf(i))>>
    \o EnsureDirOps(sources)
    \o <<FsOp("WriteFile", InDir(i, "ext_mount_map")),
         FsOp("EnsureDir", CheckpointDirOf(i))>>

\* RestoreFromArchive: EnsureDir(tempDir), Restore, the deferred RemoveDir
RestoreFromArchiveFsOps(i, sources) ==
    <<FsOp("EnsureDir", TempDir)>>
    \o RestoreFsOps(i, sources)
    \o <<FsOp("RemoveDir", TempDir)>>

FsOps(kind, i, sources) ==
    CASE kind = "Checkpoint" -> CheckpointFsOps(i, sources)
      [] kind = "Restore" -> RestoreFsOps(i, sources)
      [] kind = "RestoreFromArchive" -> RestoreFromArchiveFsOps(i, sources)

NotBegun ==
    [kind |-> "none", ops |-> <<>>, pc |-> 1, seen |-> "none",
     touched |-> {}, result |-> "none"]

\* the paths that are there when the two invocations begin: any of the
\* shared paths and of the two checkpoint directories
PairInits ==
    {[fs |-> fs, fs0 |-> fs, inv |-> [i \in Invocations |-> NotBegun]] :
        fs \in SUBSET {TempDir, HostTmpD1, CheckpointDirOf(1), CheckpointDirOf(2)}}

InitPair ==
    /\ FnRest
    /\ WfRest
    /\ pair \in PairInits

PairOp(i) == pair.inv[i].ops[pair.inv[i].pc]

PairRunning(i) ==
    /\ pair.inv[i].kind # "none"
    /\ pair.inv[i].pc <= Len(pair.inv[i].ops)

\* the invocation ends: with the deferred RemoveDir still to run if it has one
PairEnd(i, result) ==
    LET ops == pair.inv[i].ops
    IN [pair.inv[i] EXCEPT
          !.result = result, !.seen = "none",
          !.pc = IF result = "failed" /\ ops[Len(ops)].op = "RemoveDir"
                 THEN Len(ops) ELSE Len(ops) + 1]

\* after the operation at pc
PairStep(i, touched) ==
    LET inv == pair.inv[i]
    IN IF inv.pc = Len(inv.ops)
       THEN [inv EXCEPT !.pc = @ + 1, !.seen = "none",
                        !.touched = @ \cup touched,
                        !.result = IF @ = "none" THEN "ok" ELSE @]
       ELSE [inv EXCEPT !.pc = @ + 1, !.seen = "none",
                        !.touched = @ \cup touched]

\* the directories os.MkdirAll(p) has to make
Ancestors(p) == {SubSeq(p, 1, k) : k \in 1..Len(p)}

\* an invocation begins: a Checkpoint, Restore or RestoreFromArchive of
\* container i
PairBegin(i) ==
    /\ pair.inv[i].kind = "none"
    /\ \E kind \in InvocationKinds, sources \in PairSources :
          pair' = [pair EXCEPT !.inv[i] =
                      [NotBegun EXCEPT !.kind = kind,
                                       !.ops = FsOps(kind, i, sources)]]
    /\ UNCHANGED <<fnVars, wfVars>>

\* utils.DirExists: the os.Stat of EnsureDir and RemoveDir, and the check
\* of ValidateCheckpoint
PairDirExists(i) ==
    /\ PairRunning(i)
    /\ pair.inv[i].seen = "none"
    /\ PairOp(i).op \in {"EnsureDir", "RemoveDir", "DirExists"}
    /\ LET there == PairOp(i).path \in pair.fs
       IN pair' = [pair EXCEPT !.inv[i] =
                     IF PairOp(i).op = "DirExists"
                     THEN IF there THEN PairStep(i, {}) ELSE PairEnd(i, "failed")
                     ELSE [@ EXCEPT !.seen = IF there THEN "present" ELSE "absent"]]
    /\ UNCHANGED <<fnVars, wfVars>>

\* os.MkdirAll of EnsureDir, when the path was not seen
PairMkdirAll(i) ==
    /\ PairRunning(i)
    /\ PairOp(i).op = "EnsureDir"
    /\ pair.inv[i].seen # "none"
    /\ pair' = IF pair.inv[i].seen = "absent"
               THEN [pair EXCEPT !.fs = @ \cup Ancestors(PairOp(i).path),
                                 !.inv[i] = PairStep(i, {PairOp(i).path})]
               ELSE [pair EXCEPT !.inv[i] = PairStep(i, {})]
    /\ UNCHANGED <<fnVars, wfVars>>

\* os.RemoveAll of RemoveDir, when the path was seen
PairRemoveAll(i) ==
    /\ PairRunning(i)
    /\ PairOp(i).op = "RemoveDir"
    /\ pair.inv[i].seen # "none"
    /\ pair' = IF pair.inv[i].seen = "present"
               THEN [pair EXCEPT
                        !.fs = {p \in @ : ~HasPrefix(p, PairOp(i).path)},
                        !.inv[i] = PairStep(i, {PairOp(i).path})]
               ELSE [pair EXCEPT !.inv[i] = PairStep(i, {})]
    /\ UNCHANGED <<fnVars, wfVars>>

\* utils.WriteFile, and the engine writing its image files
PairWriteFile(i) ==
    /\ PairRunning(i)
    /\ PairOp(i).op = "WriteFile"
    /\ pair' = [pair EXCEPT !.fs = @ \cup Ancestors(PairOp(i).path),
                            !.inv[i] = PairStep(i, {PairOp(i).path})]
    /\ UNCHANGED <<fnVars, wfVars>>

NextPair ==
    \E i \in Invocations :
        \/ PairBegin(i)
        \/ PairDirExists(i)
        \/ PairMkdirAll(i)
        \/ PairRemoveAll(i)
        \/ PairWriteFile(i)

SpecPair == InitPair /\ [][NextPair]_vars

----------------------------------------------------------------------------
(* Claims on the mount reconciler                                          *)

NoDuplicatePaths(list) ==
    \A i, j \in 1..Len(list) :
        DescriptorPath(list[i]) = DescriptorPath(list[j]) => i = j

\* a path at or below one of the three virtual filesystems, as the code tests it
UnderVirtualFs(p) ==
    HasPrefix(p, PathProc) \/ HasPrefix(p, PathDev) \/ HasPrefix(p, PathSys)

EssentialPaths == {PathProc, PathDev, PathSys}

\* C1: the list BuildExternalMountMappings returns never holds two descriptors
\* naming the same container path, whatever the mapping list.
C1_NoDuplicateDumpDescriptors ==
    (fnOp = "BuildExternalMountMappings" /\ fnDone) => NoDuplicatePaths(fnOut)

\* C9: the External list the engine restore call receives holds no descriptor
\* naming a skipped container path that lies outside /proc, /dev and /sys.
C9_SkippedPathNotHandedToEngine ==
    (fnOp = "RestoreProcess" /\ fnDone) =>
        \A i \in 1..Len(fnOut) :
            LET p == DescriptorPath(fnOut[i])
            IN ~(p \in Range(fnSkip) /\ ~UnderVirtualFs(p))

\* the skip list without its /proc, /dev and /sys entries
RECURSIVE WithoutEssential(_)
WithoutEssential(skipMounts) ==
    IF skipMounts = <<>> THEN <<>>
    ELSE IF Head(skipMounts) \in EssentialPaths
         THEN WithoutEssential(Tail(skipMounts))
         ELSE <<Head(skipMounts)>> \o WithoutEssential(Tail(skipMounts))

\* list without the descriptors naming a path of the set paths
RECURSIVE WithoutPaths(_, _)
WithoutPaths(list, paths) ==
    IF list = <<>> THEN <<>>
    ELSE IF DescriptorPath(Head(list)) \in paths
         THEN WithoutPaths(Tail(list), paths)
         ELSE <<Head(list)>> \o WithoutPaths(Tail(list), paths)

ContainsEssential(list) ==
    \A p \in EssentialPaths : \E i \in 1..Len(list) : DescriptorPath(list[i]) = p

----------------------------------------------------------------------------
(* Claims on the orchestrators                                             *)

\* the engine calls named name, in order, each <<name, result>>
EngineCalls(name) == SelectSeq(eng.engine, LAMBDA c : c[1] = name)

\* message holds the text cause, in one piece
Contains(message, cause) ==
    \E i \in 1..(Len(message) - Len(cause) + 1) :
        SubSeq(message, i, i + Len(cause) - 1) = cause

\* the directory lacks one of the four required artifacts
Lacks(d) ==
    \/ ~d.cm.exists
    \/ ~d.mm.exists
    \/ ~d.meta.exists
    \/ ~(d.images.exists /\ d.images.by # 0)

\* C2: a Restore run (one that has entered step 1, which a RestoreFromArchive
\* that could not make its temporary directory has not) on a checkpoint
\* directory that lacks one of the four required artifacts has failed at validation, and has invoked neither
\* CreateRestoreContainer nor the engine restore.
C2_IncompleteCheckpointStopsAtValidation ==
    (rs.pc # "idle" /\ eng.calls # <<>> /\ Lacks(disk)) =>
        /\ rs.pc = "failed"
        /\ rs.err # nil
        /\ Head(rs.err) = "checkpoint validation failed: "
        /\ eng.calls = <<"ValidateCheckpoint">>
        /\ Count(eng.calls, "CreateRestoreContainer") = 0
        /\ EngineCalls("Restore") = <<>>

\* C2 witness: Restore has run on a directory left by a failed checkpoint.
C2_Witness ==
    /\ rs.pc = "failed"
    /\ disk.cm.exists /\ disk.mm.exists /\ ~disk.meta.exists

\* C3: when no Checkpoint is running and checkpoint_metadata.json exists,
\* the mount_mappings.json, container_metadata.json and image files present
\* were written by the invocation that wrote checkpoint_metadata.json.
C3_ArtifactsOfOneInvocation ==
    (ck.pc \in {"idle", "done", "failed"} /\ disk.meta.exists) =>
        /\ disk.mm.exists => disk.mm.by = disk.meta.by
        /\ disk.cm.exists => disk.cm.by = disk.meta.by
        /\ disk.images.by # 0 => disk.images.by = disk.meta.by

\* the engine dump of the running Checkpoint has returned success
DumpSucceeded ==
    /\ eng.engine # <<>>
    /\ eng.engine[Len(eng.engine)] \in
          {<<"Dump", "ok">>, <<"CheckpointProcessCmd", "ok">>}

C5_MetadataSavedBeforeEngine ==
    (ck.pc # "idle" /\ eng.engine # <<>>) =>
        /\ disk.mm.exists /\ disk.mm.by = ck.run
        /\ disk.cm.exists /\ disk.cm.by = ck.run

\* C5 witness: a checkpoint failed in the engine.
C5_Witness ==
    /\ ck.pc = "failed"
    /\ eng.engine # <<>>
    /\ eng.engine[Len(eng.engine)][2] = "err"

\* CheckpointProcess has returned
CheckpointProcessReturned ==
    ck.pc \in {"saveCheckpointMetadata", "done", "failed"}

\* C6: in a CheckpointProcess invocation the structured dump is invoked at
\* most once and the subprocess dump at most once, and once it has returned
\* the subprocess dump was invoked exactly when the structured dump was
\* invoked and failed.
C6_EachDumpPathAtMostOnce ==
    ck.pc # "idle" =>
        /\ Len(EngineCalls("Dump")) <= 1
        /\ Len(EngineCalls("CheckpointProcessCmd")) <= 1
        /\ EngineCalls("CheckpointProcessCmd") # <<>> =>
              EngineCalls("Dump") = << <<"Dump", "err">> >>
        /\ (CheckpointProcessReturned /\ EngineCalls("Dump") = << <<"Dump", "err">> >>)
              => Len(EngineCalls("CheckpointProcessCmd")) = 1

\* C6 witness: CheckpointProcess returned after the fallback ran.
C6_Witness ==
    /\ CheckpointProcessReturned
    /\ Len(EngineCalls("CheckpointProcessCmd")) = 1

\* C7: after a failed structured dump, a successful fallback makes
\* CheckpointProcess return success and Checkpoint goes on to the terminal
\* artifact; a failed fallback makes the returned error hold both the
\* structured-call error and the subprocess error.
C7_FallbackOutcome ==
    /\ (ck.pc # "idle" /\ EngineCalls("CheckpointProcessCmd")
                              = << <<"CheckpointProcessCmd", "ok">> >>) =>
          /\ EngineCalls("Dump") = << <<"Dump", "err">> >>
          /\ \/ ck.pc = "saveCheckpointMetadata" /\ ck.err = nil
             \/ Count(eng.calls, "saveCheckpointMetadata") = 1
    /\ (ck.pc # "idle" /\ EngineCalls("CheckpointProcessCmd")
                              = << <<"CheckpointProcessCmd", "err">> >>) =>
          /\ ck.pc = "failed"
          /\ Contains(ck.err, <<"Library error: ", "dump-error">>)
          /\ Contains(ck.err, <<"Command error: ", "CRIU checkpoint failed: ",
                                "exit-status-1">>)

\* C7 witness: both dump paths failed.
C7_Witness ==
    /\ ck.pc = "failed"
    /\ eng.engine = << <<"Dump", "err">>, <<"CheckpointProcessCmd", "err">> >>

\* the flags read back from the subprocess argument vector
CmdHas(args, flag) == \E i \in 1..Len(args) : args[i] = Arg(flag)

DigitValue(t) ==
    CASE t = "0" -> 0 [] t = "1" -> 1 [] t = "2" -> 2 [] t = "3" -> 3
      [] t = "4" -> 4 [] OTHER -> -1

CmdLogLevel(args) ==
    IF \E i \in 1..Len(args) : args[i][1] = "-v"
    THEN DigitValue(args[CHOOSE i \in 1..Len(args) : args[i][1] = "-v"][2])
    ELSE 0

RECURSIVE CmdExternal(_)
CmdExternal(args) ==
    IF Len(args) < 2 THEN <<>>
    ELSE IF Head(args) = Arg("--external")
         THEN <<args[2]>> \o CmdExternal(Tail(Tail(args)))
         ELSE CmdExternal(Tail(args))

\* C8: whenever the subprocess fallback is invoked, its flags are those of
\* the structured dump call: TCP-established, file-locks, manage-cgroups,
\* leave-running and shell-job enabled exactly when they are there, with the
\* same log level and the same external-mount list.
C8_FallbackFlagsEquivalent ==
    EngineCalls("CheckpointProcessCmd") # <<>> =>
        LET o == eng.dumpOpts
            a == eng.cmdArgs
        IN /\ CmdHas(a, "--tcp-established") = o.TcpEstablished
           /\ CmdHas(a, "--file-locks") = o.FileLocks
           /\ CmdHas(a, "--manage-cgroups") = o.ManageCgroups
           /\ CmdHas(a, "--leave-running") = o.LeaveRunning
           /\ CmdHas(a, "--shell-job") = o.ShellJob
           /\ CmdLogLevel(a) = o.LogLevel
           /\ CmdExternal(a) = o.External

----------------------------------------------------------------------------
(* Claims on ValidateMountSources                                          *)

ValidateRan(n) == fnOp = "ValidateMountSources" /\ Len(fnReturned) >= n

\* the external mappings with a host path: the ones ValidateMountSources
\* looks at
SourcesOf(mappings) ==
    {mappings[i].HostPath : i \in {j \in 1..Len(mappings) :
        mappings[j].IsExternal /\ mappings[j].HostPath # EmptyString}}

\* C11: a second ValidateMountSources run directly after a successful first
\* run creates nothing, leaves the host filesystem as it was and returns
\* success, whatever the mapping list and the initial host filesystem.
C11_ValidateMountSourcesIdempotent ==
    (ValidateRan(2) /\ fnReturned[1].err = nil) =>
        /\ fnReturned[2].err = nil
        /\ fnReturned[2].created = <<>>
        /\ fnReturned[2].host = fnReturned[1].host

\* the first run made a placeholder and a second run followed
C11_Witness ==
    /\ ValidateRan(2)
    /\ fnReturned[1].err = nil
    /\ fnReturned[1].created # <<>>

\* C12: ValidateMountSources returns an error only when creating a
\* placeholder failed, and after a successful return every external mapping
\* with a non-empty host path has a file or directory at that host path.
C12_ErrorOnlyFromCreationAndSourcesPresent ==
    ValidateRan(1) =>
        LET r == fnReturned[1]
        IN /\ r.err # nil => SourcesOf(fnMappings) \cap fnFailing # {}
           /\ r.err = nil =>
                 SourcesOf(fnMappings) \subseteq r.host.present \cup SystemHostPaths

----------------------------------------------------------------------------
(* Claims on the persisted structures                                      *)

----------------------------------------------------------------------------
(* Claims on the descriptors of one mapping                                *)

\* the list without its IsExternal=false mappings
WithoutInternal(mappings) == SelectSeq(mappings, LAMBDA m : m.IsExternal)

\* C14: a mapping with IsExternal=false contributes no descriptor: what
\* BuildExternalMountMappings, BuildExtMountMapArgs and buildExternalMountArgs
\* return on a list is what they return on the list with its
\* IsExternal=false mappings removed.
C14_InternalMappingEmitsNothing ==
    fnDone =>
        /\ fnOp = "BuildExternalMountMappings" =>
              fnOut = BuildExternalMountMappings(WithoutInternal(fnMappings))
        /\ fnOp = "BuildExtMountMapArgs" =>
              fnOut = BuildExtMountMapArgs(WithoutInternal(fnMappings))
        /\ fnOp = "buildExternalMountArgs" =>
              fnOut = buildExternalMountArgs(WithoutInternal(fnMappings), fnSkip)

\* BuildExternalMountMappings has run on a list holding an internal mapping
\* that has a host path and lies outside /proc, /sys and /dev, next to an
\* external one that got its descriptor
C14_Witness ==
    /\ fnOp = "BuildExternalMountMappings" /\ fnDone
    /\ Len(fnMappings) = 2
    /\ ~fnMappings[1].IsExternal
    /\ fnMappings[1].ContainerPath = PathData
    /\ fnMappings[1].HostPath = HostTmpD1
    /\ fnMappings[2].IsExternal
    /\ Len(fnOut) = Len(standardMounts) + 1

----------------------------------------------------------------------------
(* Claims on the orchestrators, continued                                  *)

\* the container paths of the mount_mappings.json in the directory
PersistedPaths(d) ==
    IF d.mm.exists
    THEN {m.ContainerPath : m \in Range(UnmarshalMountMappings(d.mm.data).mappings)}
    ELSE {}

\* C15: every external-mount descriptor the engine is handed at dump time
\* names a container path that is the container_path of an entry of the
\* checkpoint's persisted mount_mappings.json.
C15_DumpDescriptorsNamePersistedPaths ==
    (ck.pc # "idle" /\ EngineCalls("Dump") # <<>>) =>
        \A i \in 1..Len(eng.dumpOpts.External) :
            DescriptorPath(eng.dumpOpts.External[i]) \in PersistedPaths(disk)

\* the files and image files in the directory that invocation run wrote
WrittenBy(d, run) ==
    {name \in {"mm", "cm", "meta", "extmap", "images"} :
        d[name].exists /\ d[name].by = run}

\* C16: when the runtime reports the container as not running,
\* GetContainerState returns an error and Checkpoint has failed at step 1:
\* no later step ran, the engine was not invoked, the invocation wrote no
\* artifact, and a directory that was not there has not been created.
C16_NotRunningFailsAtStepOne ==
    (ck.pc # "idle" /\ ~ck.inspect.err /\ ~ck.inspect.Running) =>
        /\ ck.pc = "failed"
        /\ Contains(ck.err, <<"container is not running">>)
        /\ eng.calls = <<"GetContainerState">>
        /\ eng.engine = <<>>
        /\ WrittenBy(disk, ck.run) = {}
        /\ ck.run = 1 => disk = EmptyDisk

\* a first Checkpoint of a container the runtime reports as stopped
C16_Witness ==
    /\ ck.pc = "failed" /\ ck.run = 1
    /\ ~ck.inspect.err /\ ~ck.inspect.Running

\* C17: when the pre-dump call has failed, the checkpoint has failed:
\* neither the structured dump nor the subprocess fallback is invoked
\* afterwards and the invocation writes no checkpoint_metadata.json.
C17_PreDumpFailureIsFatal ==
    (ck.pc # "idle" /\ EngineCalls("PreDump") = << <<"PreDump", "err">> >>) =>
        /\ ck.pc = "failed"
        /\ Contains(ck.err, <<"pre-dump failed: ">>)
        /\ EngineCalls("Dump") = <<>>
        /\ EngineCalls("CheckpointProcessCmd") = <<>>
        /\ Count(eng.calls, "saveCheckpointMetadata") = 0
        /\ "meta" \notin WrittenBy(disk, ck.run)

\* a pre-dump that failed after writing image files
C17_Witness ==
    /\ ck.pc = "failed"
    /\ EngineCalls("PreDump") = << <<"PreDump", "err">> >>
    /\ "images" \in WrittenBy(disk, ck.run)

\* the engine is never reached through the subprocess restore path
NoRestoreProcessCmd ==
    /\ EngineCalls("RestoreProcessCmd") = <<>>
    /\ Count(eng.calls, "RestoreProcessCmd") = 0

\* C18 (as stated): every Restore invocation attempts the engine restore
\* exactly once, through the structured call, and when that fails Restore
\* has failed without invoking RestoreProcessCmd.
C18_EveryRestoreAttemptsEngineOnce ==
    rs.pc \in {"done", "failed"} =>
        /\ Len(EngineCalls("Restore")) = 1
        /\ NoRestoreProcessCmd
        /\ EngineCalls("Restore") = << <<"Restore", "err">> >> => rs.pc = "failed"

\* C18 (amended): a Restore invocation attempts the engine restore at most
\* once and only through the structured call: once when it got past
\* RestoreProcess, not at all when an earlier step or the opening of the
\* images directory failed; when the attempt fails Restore has failed with
\* that error, and RestoreProcessCmd is never invoked.
C18_RestoreHasNoFallback ==
    rs.pc # "idle" =>
        /\ Len(EngineCalls("Restore")) <= 1
        /\ NoRestoreProcessCmd
        /\ rs.pc \in {"verifyRestoration", "done"} =>
              EngineCalls("Restore") = << <<"Restore", "ok">> >>
        /\ EngineCalls("Restore") = << <<"Restore", "err">> >> =>
              /\ rs.pc = "failed"
              /\ Contains(rs.err, <<"CRIU restore failed: ", "restore-error">>)
        /\ (rs.pc = "failed" /\ ~Contains(rs.err, <<"restore-error">>)) =>
              EngineCalls("Restore") = <<>>

\* the engine restore was attempted and failed
C18_Witness ==
    /\ rs.pc = "failed"
    /\ EngineCalls("Restore") = << <<"Restore", "err">> >>

\* the nine steps of a Restore run, in the order they are to be visited
RestoreOrder ==
    << "ValidateCheckpoint", "GetCheckpointInfo", "CreateRestoreContainer",
       "prepareMountNamespace", "StartContainer", "GetContainerPID",
       "StopContainer", "RestoreProcess", "verifyRestoration" >>

\* the trace of the run reduced to those steps; the engine call stands for
\* the RestoreProcess that made it
VisitedSteps ==
    LET name(c) == IF c = "Restore" THEN "RestoreProcess" ELSE c
        named == [i \in 1..Len(eng.calls) |-> name(eng.calls[i])]
    IN SelectSeq(named, LAMBDA c : c \in Range(RestoreOrder))

IsPrefix(s, t) == Len(s) <= Len(t) /\ s = SubSeq(t, 1, Len(s))

\* C19: a Restore run visits validate, load metadata, create shell
\* container, prepare mounts, start, capture PID, stop, engine restore and
\* verify in that order, none before all earlier ones and none twice; a run
\* that holds an error has ended, and it ended in the step it visited last.
C19_RestoreStepsInOrder ==
    rs.pc # "idle" =>
        /\ IsPrefix(VisitedSteps, RestoreOrder)
        /\ rs.err # nil <=> rs.pc = "failed"
        /\ rs.pc = "done" => VisitedSteps = RestoreOrder
        /\ rs.pc \in Range(RestoreOrder) =>
              VisitedSteps = SubSeq(RestoreOrder, 1, IndexOf(RestoreOrder, rs.pc) - 1)

\* a run that failed in the engine restore after visiting all steps before it
C19_Witness ==
    /\ rs.pc = "failed"
    /\ VisitedSteps = SubSeq(RestoreOrder, 1, 8)
    /\ Contains(rs.err, <<"restore-error">>)

\* C20 (as stated): when stopping the shell container failed, Restore still
\* invokes the engine restore, and the run succeeds exactly when that call
\* succeeds.
C20_StopFailureLeavesOutcomeToEngine ==
    (rs.stopErr # nil /\ rs.pc \in {"done", "failed"}) =>
        /\ Len(EngineCalls("Restore")) = 1
        /\ rs.pc = "done" <=> EngineCalls("Restore") = << <<"Restore", "ok">> >>

\* C20 (amended): when stopping the shell container failed, Restore does not
\* fail on it: the run goes on with CreateExtMountMapFile, its error never
\* holds the stop error, it fails only in CreateExtMountMapFile or
\* RestoreProcess, and once the engine restore was invoked the run succeeds
\* exactly when that call succeeded.
C20_StopFailureIsNotFatal ==
    rs.stopErr # nil =>
        /\ rs.pc \in {"CreateExtMountMapFile", "RestoreProcess",
                       "verifyRestoration", "done", "failed"}
        /\ ~Contains(rs.err, rs.stopErr)
        /\ rs.pc = "failed" =>
              \/ Contains(rs.err, <<"failed to create external mount map: ">>)
              \/ Contains(rs.err, <<"CRIU restore failed: ">>)
        /\ EngineCalls("Restore") = << <<"Restore", "ok">> >> =>
              rs.pc \in {"verifyRestoration", "done"}
        /\ EngineCalls("Restore") = << <<"Restore", "err">> >> => rs.pc = "failed"
        /\ rs.pc \in {"verifyRestoration", "done"} =>
              EngineCalls("Restore") = << <<"Restore", "ok">> >>

\* a run completed although StopContainer had failed
C20_Witness ==
    /\ rs.stopErr # nil
    /\ rs.pc = "done"
    /\ EngineCalls("Restore") = << <<"Restore", "ok">> >>

\* C21: when the engine restore call succeeded, Restore returns success
\* whatever the runtime answers to the re-query of the restored container:
\* an inspect error, a container that is not running, or a running one.
C21_VerificationNeverFails ==
    (rs.pc \in {"done", "failed"}
        /\ EngineCalls("Restore") = << <<"Restore", "ok">> >>) =>
        /\ rs.pc = "done"
        /\ rs.err = nil

\* a run that succeeded although the re-query reported a stopped container
C21_Witness ==
    /\ rs.pc = "done"
    /\ EngineCalls("Restore") = << <<"Restore", "ok">> >>
    /\ ~rs.verify.err /\ ~rs.verify.Running

WellKnownPaths ==
    << PathProc, PathSys, PathDev, PathDevShm, PathDevPts, PathDevMqueue,
       PathSysFsCgroup >>

\* list is one mapping per mount of mounts, in order, then the seven
\* well-known mounts
MappingsOf(list, mounts) ==
    /\ Len(list) = Len(mounts) + Len(WellKnownPaths)
    /\ \A i \in 1..Len(mounts) :
          /\ list[i].ContainerPath = mounts[i].Destination
          /\ list[i].HostPath = mounts[i].Source
          /\ list[i].IsExternal
          /\ list[i].ReadOnly = ~mounts[i].RW
    /\ \A k \in 1..Len(WellKnownPaths) :
          /\ list[Len(mounts) + k].ContainerPath = WellKnownPaths[k]
          /\ list[Len(mounts) + k].HostPath = WellKnownPaths[k]
          /\ list[Len(mounts) + k].IsExternal

\* C23: GetMountMappings returns one mapping per runtime mount, in runtime
\* order (container path = destination, host path = source, IsExternal,
\* ReadOnly = not RW), followed by exactly the seven well-known virtual
\* mounts, and that list is what Checkpoint persists in mount_mappings.json.
C23_MountMappingsDerivedAndPersisted ==
    (ck.pc # "idle" /\ Count(eng.calls, "SaveMountMappings") = 1) =>
        /\ MappingsOf(ck.mountMappings, ck.inspect.Mounts)
        /\ "mm" \in WrittenBy(disk, ck.run) =>
              UnmarshalMountMappings(disk.mm.data).mappings = ck.mountMappings

\* a checkpoint of a container with two runtime mounts has persisted its
\* mount list
C23_Witness ==
    /\ ck.pc \notin {"idle", "failed"}
    /\ Len(ck.inspect.Mounts) = 2
    /\ ck.inspect.Mounts[1] # ck.inspect.Mounts[2]
    /\ "mm" \in WrittenBy(disk, ck.run)

\* C24: every operation that consumes a checkpoint directory
\* (ValidateCheckpoint, Restore, GetRestoreOptions, GetCheckpointInfo,
\* AnalyzeCheckpoint) returns an error when checkpoint_metadata.json is
\* absent from the directory.
C24_ConsumersRejectMissingTerminalArtifact ==
    ~FileExists(disk, "meta") =>
        /\ query.op # "none" => query.err # nil
        /\ rs.pc # "done"

\* both the structured dump and the subprocess fallback failed
BothDumpPathsFailed ==
    /\ ck.pc = "failed"
    /\ EngineCalls("Dump") = << <<"Dump", "err">> >>
    /\ EngineCalls("CheckpointProcessCmd") = << <<"CheckpointProcessCmd", "err">> >>

\* C25: when both the structured dump and the subprocess fallback fail and
\* the engine's log file exists, the error returned by the checkpoint
\* contains the contents of that log file.
C25_ReturnedErrorCarriesEngineLog ==
    (BothDumpPathsFailed /\ ck.logFile.exists) =>
        Contains(ck.err, ck.logFile.data)

\* the Restore in progress has loaded its state and its mapping list
RestoreLoaded ==
    /\ Count(eng.calls, "LoadMountMappings") = 1
    /\ rs.pc \notin {"idle", "ValidateCheckpoint", "GetCheckpointInfo",
                     "LoadMountMappings", "failed"}

\* C26: in every Restore the mapping list used for mount preparation and for
\* the engine descriptors equals the mount_mappings field of the
\* checkpoint_metadata.json that supplied the ContainerState.
C26_RestoreMappingsComeFromCompositeArtifact ==
    RestoreLoaded => rs.mountMappings = rs.metaMappings

\* the four artifacts a restore reads
CheckpointArtifacts == <<disk.cm, disk.mm, disk.meta, disk.images>>

\* C27: no restore-side operation (ValidateCheckpoint, GetRestoreOptions,
\* Restore, RestoreFromArchive) deletes or rewrites container_metadata.json,
\* mount_mappings.json, checkpoint_metadata.json or the images directory of
\* the checkpoint it reads, for every checkpoint or archive path.
C27_RestoreSideLeavesArtifactsAlone ==
    [][(rs' # rs \/ query' # query) => CheckpointArtifacts' = CheckpointArtifacts]_vars

\* both invocations of the pair have ended
PairEnded == \A i \in Invocations : pair.inv[i].result # "none" /\ ~PairRunning(i)

\* the result of invocation i when it runs alone from the same file system
ResultAlone(i) ==
    IF pair.inv[i].kind \in {"Restore", "RestoreFromArchive"}
       /\ CheckpointDirOf(i) \notin pair.fs0
    THEN "failed" ELSE "ok"

\* C28: for every interleaving of two invocations (Checkpoint, Restore or
\* RestoreFromArchive) on different containers with disjoint checkpoint
\* directories, no path is written or removed by both invocations, and each
\* ends with the same result as when it runs alone.
C28_InvocationsShareNoPath ==
    pair # NoPair =>
        /\ pair.inv[1].touched \cap pair.inv[2].touched = {}
        /\ PairEnded => \A i \in Invocations : pair.inv[i].result = ResultAlone(i)

\* the tokens that continue the name before them instead of opening a new
\* path component
ContinuationTokens == {"ess"}

\* path p is q or a descendant of q
AtOrBelow(p, q) ==
    /\ HasPrefix(p, q)
    /\ Len(p) = Len(q) \/ p[Len(q) + 1] \notin ContinuationTokens

\* a mapping the dump is to be told about
IsUserVolume(mapping) ==
    /\ mapping.IsExternal
    /\ mapping.HostPath # EmptyString
    /\ \A q \in EssentialPaths : ~AtOrBelow(mapping.ContainerPath, q)

UserVolumeDescriptors(mappings) ==
    LET volumes == SelectSeq(mappings, IsUserVolume)
    IN [k \in 1..Len(volumes) |-> SprintfMnt(volumes[k].ContainerPath)]

\* C29: BuildExternalMountMappings returns the fixed allow-list first and
\* then, in mapping-list order, exactly one mnt[<container_path>] descriptor
\* for every mapping that has IsExternal true, a non-empty host path and a
\* container path that is neither /proc, /sys or /dev nor a descendant of
\* one of them; no other mapping-derived descriptor is emitted.
C29_DumpDescriptorsAreAllowListThenUserVolumes ==
    (fnOp = "BuildExternalMountMappings" /\ fnDone) =>
        fnOut = standardMounts \o UserVolumeDescriptors(fnMappings)

\* the position of the first engine call named name, 0 when there is none
FirstEngineCall(name) ==
    IF EngineCalls(name) = <<>> THEN 0
    ELSE CHOOSE k \in 1..Len(eng.engine) :
            /\ eng.engine[k][1] = name
            /\ \A j \in 1..(k - 1) : eng.engine[j][1] # name

\* C30: in CheckpointProcess the pre-dump is invoked if and only if it was
\* requested, exactly once and strictly before the dump, with TCP-established
\* forced off and memory tracking on; the options of the following full dump
\* are unaffected by the pre-dump overrides (TCP-established stays as
\* configured).
C30_PreDumpOnlyOnRequestBeforeDump ==
    ck.pc # "idle" =>
        /\ Len(EngineCalls("PreDump")) <= 1
        /\ EngineCalls("PreDump") # <<>> =>
              /\ ck.config.PreDump
              /\ ~eng.preDumpOpts.TcpEstablished
              /\ eng.preDumpOpts.TrackMem
        /\ EngineCalls("Dump") # <<>> =>
              /\ ck.config.PreDump <=> EngineCalls("PreDump") = << <<"PreDump", "ok">> >>
              /\ ck.config.PreDump =>
                    FirstEngineCall("PreDump") < FirstEngineCall("Dump")
              /\ eng.dumpOpts = DumpCriuOpts(ck.state.ProcessPID, CkOpts)
              /\ eng.dumpOpts.TcpEstablished = ck.config.TcpEstablished

\* C30 witness: a checkpoint with pre-dump and TCP-established requested has
\* called the pre-dump and then the dump.
C30_Witness ==
    /\ ck.pc # "idle"
    /\ ck.config.PreDump /\ ck.config.TcpEstablished
    /\ EngineCalls("PreDump") # <<>>
    /\ EngineCalls("Dump") # <<>>

C32_NoDuplicateRestoreDescriptors ==
    (fnOp = "RestoreProcess" /\ fnDone) => NoDuplicatePaths(fnOut)

\* C33: after every successful Checkpoint the checkpoint directory holds the
\* ext_mount_map file listing the container_path:host_path pairs of the
\* checkpoint's external mappings.
C33_CheckpointLeavesExtMountMap ==
    ck.pc = "done" =>
        /\ FileExists(disk, "extmap")
        /\ disk.extmap.data = ExtMountMapContent(ck.mountMappings)

\* the Linux clone flag of the mount namespace, bit 17 (0x00020000)
CLONE_NEWNS == 2 ^ 17

\* bit is a power of two; mask has that bit set
HasBit(mask, bit) == (mask \div bit) % 2 = 1

\* C34: in every Restore that reaches the engine call, for every
\* RestoreConfig, the EmptyNs bit mask passed to the engine has the
\* CLONE_NEWNS bit (0x00020000) set.
C34_EmptyNsCarriesMountNamespaceBit ==
    EngineCalls("Restore") # <<>> => HasBit(eng.restoreOpts.EmptyNs, CLONE_NEWNS)

\* C35: for every container identifier the runtime accepts (a name or an
\* ID), the directory the checkpoint command lists files from and reports as
\* Location is the directory Checkpoint wrote the artifacts to,
\* <output_dir>/<container_name>/<checkpoint_name>.
C35_ReportedLocationIsWrittenDirectory ==
    (fnOp = "checkpointCommand" /\ fnDone) =>
        Clean(fnOut.location) = fnOut.written

\* C36: ValidateCheckpoint returns an error value for every path that is not
\* an existing directory, whatever the reason (absent, a regular file, a path
\* below a regular file or an unreadable directory).
C36_ValidateCheckpointRejectsNonDirectory ==
    (fnOp = "ValidateCheckpoint" /\ fnDone /\ fnOut.stat # "directory") =>
        /\ ~fnOut.returned.panic
        /\ fnOut.returned.err # nil

\* C37: for every checkpoint directory that passes ValidateCheckpoint,
\* including one whose JSON artifacts are valid but carry no container state
\* (e.g. {}), Restore ends by returning success or an error value; it never
\* crashes.
C37_RestoreNeverCrashes ==
    (fnOp = "Restore" /\ fnDone) => ~fnOut.returned.panic

\* C38: Restore performs no cleanup: if it fails at a step after the shell
\* container was created (mount preparation, start, PID capture,
\* ext-mount-map write or engine restore), that container still exists in
\* the runtime when Restore returns, and RemoveContainer is never invoked.
C38_FailedRestoreLeavesShellContainer ==
    /\ Count(eng.calls, "RemoveContainer") = 0
    /\ (rs.pc = "failed" /\ Count(eng.calls, "prepareMountNamespace") = 1) =>
          rs.container # "none"

\* C38 witness: a Restore has failed at the engine restore, after the shell
\* container was created, started and stopped.
C38_Witness ==
    /\ rs.pc = "failed"
    /\ EngineCalls("Restore") = << <<"Restore", "err">> >>
    /\ rs.container # "none"

\* C39: the options handed to the engine restore call do not depend on the
\* shell container: Restore runs with the same RestoreConfig and checkpoint
\* contents but different created container IDs and captured PIDs pass
\* identical options to the engine.
C39_EngineOptionsIndependentOfShellContainer ==
    (fnOp = "RestoreOptions" /\ fnDone) =>
        \A containerID \in ShellContainerIDs, newPID \in ShellPIDs :
            RestoreEngineOpts(fnOut.config, fnMappings, containerID, newPID)
                = fnOut.opts

\* C39 witness: the options were built for one shell container and a
\* checkpoint with an external mapping; the claim compares them with those
\* for the other ID and PID.
C39_Witness ==
    /\ fnOp = "RestoreOptions" /\ fnDone
    /\ fnOut.containerID = "bbbbbbbbbbbb" /\ fnOut.newPID = 300
    /\ \E k \in 1..Len(fnMappings) :
          fnMappings[k].IsExternal /\ fnMappings[k].HostPath # EmptyString

=============================================================================
